---- MODULE Spec2Model ----
(***************************************************************************)
(* State-machine model of finetrainers' Trainer (src/finetrainers/         *)
(* trainer.py): the training loop with checkpoint retention and resume,    *)
(* the validation runner, the precomputation cache and the adapter         *)
(* save/load hooks.                                                        *)
(***************************************************************************)
EXTENDS Integers, Sequences, FiniteSets, TLC

\* ------------------------------------------------------------------ bounds
MaxProcs == 2          \* accelerator.num_processes ranges over 1..MaxProcs
MaxTrainSteps == 3     \* state.train_steps ranges over 1..MaxTrainSteps
MaxBatches == 2        \* len(dataloader), the micro-batches of one epoch
MaxAccum == 2          \* gradient_accumulation_steps ranges over 1..MaxAccum
MaxLimit == 2          \* checkpointing_limit ranges over 1..MaxLimit
MaxCkptEvery == 2      \* checkpointing_steps ranges over 1..MaxCkptEvery
MaxPrompts == 3        \* len(validation_prompts) ranges over 0..MaxPrompts
MaxSamples == 3        \* len(dataset) ranges over 1..MaxSamples
MaxBatchSize == 2      \* args.batch_size ranges over 1..MaxBatchSize
MaxModels == 2         \* the hooks receive lists of 0..MaxModels models
MaxValEvery == 2       \* validation_every_n_steps ranges over None, 1..MaxValEvery
MaxValEpochs == 1      \* validation_every_n_epochs ranges over None, 1..MaxValEpochs
MaxRunPrompts == 1     \* validation prompts of a training run, 0..MaxRunPrompts
MaxLatent == 1         \* latent and noise values range over -MaxLatent..MaxLatent
HalfDen == 1           \* probabilities and sigmas are multiples of 1/(2 * HalfDen)
MaxArtPrompts == 2     \* validation prompts of a run that saves artifacts, 1..MaxArtPrompts
MaxVideos == 2         \* num_validation_videos_per_prompt ranges over 1..MaxVideos
MaxEpochs == 2         \* args.train_epochs ranges over 1..MaxEpochs

\* ----------------------------------------------------------------- helpers
Max(S) == CHOOSE x \in S : \A y \in S : y <= x
Min(S) == CHOOSE x \in S : \A y \in S : x <= y

\* math.ceil(a / b) for positive integers
CeilDiv(a, b) == (a + b - 1) \div b

\* the k lowest elements of a set of integers
RECURSIVE Lowest(_, _)
Lowest(S, k) ==
    IF k <= 0 \/ S = {} THEN {}
    ELSE {Min(S)} \cup Lowest(S \ {Min(S)}, k - 1)

\* the k highest elements of a set of integers
RECURSIVE Highest(_, _)
Highest(S, k) ==
    IF k <= 0 \/ S = {} THEN {}
    ELSE {Max(S)} \cup Highest(S \ {Max(S)}, k - 1)

VARIABLES
    \* ---- configuration and replicated state of a training run
    args,                         \* self.args (the fields train() reads)
    accelerator,                  \* num_processes, deepspeed (distributed_type)
    state,                        \* self.state: train_steps, train_epochs, num_update_steps_per_epoch
    \* ---- per-process locals of Trainer.train
    pc,
    global_step,
    first_epoch,
    initial_global_step,
    resume_from_checkpoint_path,  \* 0 stands for None, s > 0 for <output_dir>/checkpoint-s
    load_state_calls,
    epoch,
    step,
    \* ---- the output directory
    checkpoints,                  \* the encoded steps of the checkpoint-<step> directories
    checkpoints0,                 \* the checkpoints present when the run started
    saved,                        \* the steps save_state was called for during the run
    final_weights_writers,        \* the ranks that wrote the final adapter weights
    output_lora,                  \* the adapter weights file of the output directory:
                                  \* "absent", "stale" (an earlier run's) or "final"
    step_validations,             \* per process: the step-triggered validate calls made
    ckpt_fired,                   \* per process: the checkpoint triggers that fired
    save_attempt,                 \* per process, for its latest checkpoint trigger: the step,
                                  \* the directory listing before get_intermediate_ckpt_path
                                  \* (kept until save_state has returned),
                                  \* whether save_state wrote the state, whether the save
                                  \* hook wrote the adapter weights file (step 0: none yet)
    finalize_log,                 \* per process: the steps of Finalize taken, in order
    \* ---- Trainer.validate, per process
    val_args,                     \* num_validation_samples, final_validation
    val_pc,
    val_i,                        \* the loop variable of `for i in range(num_validation_samples)`
    val_generated,                \* the prompt indices the process ran the pipeline for, in order
    transformer_mode,             \* "train" or "eval"
    pipeline,                     \* "none", "training" (in-training components) or "fresh_lora"
    all_artifacts,                \* the result of gather_object on the process
    tracker_log,                  \* what the main process logged to the trackers
    val_components,               \* "held" or "released": the Trainer's model components
    val_lora,                     \* the adapter weights file a fresh pipeline loaded
    val_effects,                  \* per process, counted over all validate calls: pipelines
                                  \* built, _delete_components calls, files written,
                                  \* gathers and barriers entered
    \* ---- Trainer.prepare_precomputations, per process, and the cache directories
    pre_args,                     \* precompute_conditions, batch_size, len_dataset
    pre_pc,
    pre_i,                        \* the loop variable of `for i, data in enumerate(self.dataset)`
    pre_index,                    \* the local counter `index`
    components,                   \* the model components the Trainer holds (not None)
    dataloader,                   \* "dataset" (live encoding) or "precomputed" (cache-backed)
    conditions_dir,               \* file name |-> sample, <data_root>/precomputed/conditions
    latents_dir,                  \* file name |-> sample, <data_root>/precomputed/latents
    dirs_made,                    \* the two cache directories exist
    cache_checks,                 \* calls of should_perform_precomputation in this invocation
    encoder_loads,                \* load_condition_models / load_latent_models calls
    encodings,                    \* prepare_conditions / prepare_latents calls
    file_writes,                  \* torch.save calls
    write_log,                    \* the torch.save calls made: who wrote which path for
                                  \* which sample
    writing,                      \* per process: the path of the torch.save call in
                                  \* progress (the file exists, its content is not yet
                                  \* all there), or <<>>
    invocation,                   \* 1: first run against the data root, 2: the next run
    \* ---- the save/load hooks registered with the accelerator, one invocation each
    hook_in,                      \* rank, models, mixed_precision, the adapter file found
    hook_pc,
    hook_models,                  \* the `models` list argument (the load hook pops it)
    hook_weights,                 \* the `weights` list argument (the save hook pops it)
    ckpt_lora,                    \* the keys of the adapter file in the checkpoint directory
    lora_writes,                  \* save_lora_weights calls that wrote the file
    save_result,                  \* "none", "returned" or the error raised
    load_result,
    load_target,                  \* the object the adapter state was loaded into
    loaded_keys,                  \* the adapter keys set on it
    hook_warnings,                \* logger.warning calls of the load hook
    cast_calls,                   \* cast_training_params calls of the load hook
    lora,                         \* adapter weight values: of self.transformer (training), of the
                                  \* adapter file (file), of the load hook's local model (fresh)
    dtypes,                       \* parameter dtypes: of self.transformer (adapter, backbone),
                                  \* of the parameters prepare_optimizer handed to the
                                  \* optimizer, of the model the load hook loaded into
    \* ---- the computation of the micro-batches of one epoch, on one process
    batch_args,                   \* caption dropout, precompute_conditions, accumulation, plugin
    batch_pc,
    batch_step,                   \* the loop variable `step` of enumerate(dataloader)
    batch,                        \* the micro-batch read and the random draws made for it
    passed_prompts,               \* the `prompt` argument of prepare_conditions (live encoding)
    text_conditions,              \* prompt_embeds and prompt_attention_mask given to forward_pass
    dropped,                      \* the caption dropout techniques applied in this micro-batch
    noisy_latents,                \* as a fraction: the numerator over Den
    target,
    grads,                        \* micro-batch gradients accumulated and not yet zeroed
    updates,                      \* per optimizer update, the micro-batch gradients it applied
    scheduler_steps,              \* learning-rate scheduler steps that took effect
    events,                       \* what took effect during this micro-batch, in order
    \* ---- the artifact files of one validation run
    art_args,                     \* step, the validation prompts with their image and video,
                                  \* num_validation_videos_per_prompt, the pipeline's output type
    art_i,                        \* per process: the loop variable of the prompt loop
    art_writes,                   \* the artifacts saved: by whom, for which prompt, under
                                  \* which key of `artifacts`, to which path
    \* ---- the parameters of the model components and the optimizer
    grad_in,                      \* precompute_conditions, the optional text encoders the
                                  \* model has
    grad_pc,
    requires_grad,                \* per parameter group held: requires_grad
    opt_params,                   \* the parameter groups handed to the optimizer
    param_updates,                \* per parameter group held: the optimizer updates applied
    grad_steps                    \* optimizer steps taken

trainVars == <<args, accelerator, state, pc, global_step, first_epoch, initial_global_step,
               resume_from_checkpoint_path, load_state_calls, epoch, step,
               checkpoints, checkpoints0, saved, final_weights_writers,
               output_lora, step_validations, ckpt_fired, save_attempt, finalize_log>>

valVars == <<val_args, val_pc, val_i, val_generated, transformer_mode, pipeline,
             all_artifacts, tracker_log, val_components, val_lora, val_effects>>

preVars == <<pre_args, pre_pc, pre_i, pre_index, components, dataloader, conditions_dir,
             latents_dir, dirs_made, cache_checks, encoder_loads, encodings, file_writes,
             write_log, writing, invocation>>

hookVars == <<hook_in, hook_pc, hook_models, hook_weights, ckpt_lora, lora_writes, save_result,
              load_result, load_target, loaded_keys, hook_warnings, cast_calls,
              dtypes, lora>>

stepVars == <<batch_args, batch_pc, batch_step, batch, passed_prompts, text_conditions, dropped,
              noisy_latents, target, grads, updates, scheduler_steps, events>>

artVars == <<art_args, art_i, art_writes>>

gradVars == <<grad_in, grad_pc, requires_grad, opt_params, param_updates, grad_steps>>

vars == <<trainVars, valVars, preVars, hookVars, stepVars, artVars, gradVars>>

\* the variables a training run leaves alone
notTrainVars == <<valVars, preVars, hookVars, stepVars, artVars, gradVars>>

Procs == 0 .. accelerator.num_processes - 1
AllProcs == 0 .. MaxProcs - 1

\* accelerator.is_main_process
IsMainProcess(p) == p = 0

\* ------------------------------------------------- checkpointing utilities
\* utils/checkpointing.get_latest_ckpt_path_to_resume_from: the tuple
\* (resume_from_checkpoint_path, initial_global_step, global_step, first_epoch)
ColdStart == <<0, 0, 0, 0>>

GetLatestCkptPathToResumeFrom(resume_from_checkpoint, num_update_steps_per_epoch, dir) ==
    IF resume_from_checkpoint = <<"none">> THEN ColdStart
    ELSE LET path == IF resume_from_checkpoint = <<"latest">>
                     THEN (IF dir = {} THEN 0 ELSE Max(dir))
                     ELSE resume_from_checkpoint[2]
         IN  IF path = 0 THEN ColdStart
             ELSE <<path, path, path, path \div num_update_steps_per_epoch>>

\* utils/checkpointing.get_intermediate_ckpt_path: the directory listing after the
\* pruning that precedes a save (the returned path is checkpoint-<step>)
GetIntermediateCkptPath(checkpointing_limit, ckpt_step, dir) ==
    IF Cardinality(dir) >= checkpointing_limit
    THEN dir \ Lowest(dir, Cardinality(dir) - checkpointing_limit + 1)
    ELSE dir

\* ------------------------------------- save_model_hook: the models loop
\* parameter names are sequences of path components: a.b.c is <<"a", "b", "c">>
\* get_peft_model_state_dict(model): the adapter parameters, without the backbone
AdapterKeys == {<<"to_q", "lora_A">>, <<"to_q", "lora_B">>}
BackboneKeys == {<<"to_q", "weight">>}

\* mutation of IsTransformerType: every model accepted
IsTransformerType_Any(model) == TRUE

\* isinstance(unwrap_model(model), type(unwrap_model(self.transformer)))
IsTransformerType(model) == model = "transformer"

\* the `for model in models` loop of the save hook from position k on: the adapter
\* state of a transformer is taken and the last weight popped, any other model raises
RECURSIVE SaveLoop(_, _, _, _)
SaveLoop(models, k, layers, weights) ==
    IF k > Len(models) THEN [raised |-> FALSE, layers |-> layers, weights |-> weights]
    ELSE IF IsTransformerType(models[k])
         THEN SaveLoop(models, k + 1, AdapterKeys,
                       IF weights # <<>> THEN SubSeq(weights, 1, Len(weights) - 1) ELSE weights)
         ELSE [raised |-> TRUE, layers |-> layers, weights |-> weights]

\* ------------------------------------------------------------ Trainer.train
\* prepare_for_training: the per-epoch update count
NumUpdateStepsPerEpoch(len_dataloader, gradient_accumulation_steps) ==
    CeilDiv(len_dataloader, gradient_accumulation_steps)

\* mutation of TrainEpochs: the quotient rounded down
TrainEpochs_Floor(train_steps, num_update_steps_per_epoch) ==
    train_steps \div num_update_steps_per_epoch

\* prepare_for_training: train_epochs recomputed from train_steps
TrainEpochs(train_steps, num_update_steps_per_epoch) ==
    CeilDiv(train_steps, num_update_steps_per_epoch)

\* len(self.dataloader) after accelerator.prepare: the batches are dealt out to the
\* processes, each process iterating over its share
PreparedLen(len_dataloader, num_processes) == CeilDiv(len_dataloader, num_processes)

\* prepare_optimizer, the step counts: state.train_epochs and state.train_steps are
\* taken from the arguments (0 stands for None); a train_steps that was not
\* configured is derived from the unprepared dataloader and marked as overwritten
PrepareOptimizerSteps ==
    /\ \A p \in Procs : pc[p] = "prepare_optimizer"
    /\ pc' = [p \in AllProcs |-> IF p \in Procs THEN "prepare_for_training" ELSE pc[p]]
    /\ LET e == NumUpdateStepsPerEpoch(args.len_dataloader, args.gradient_accumulation_steps)
       IN  state' = [train_epochs |-> args.train_epochs,
                     train_steps |-> IF args.train_steps = 0 THEN args.train_epochs * e
                                     ELSE args.train_steps,
                     overwrote_max_train_steps |->
                         (state.overwrote_max_train_steps \/ args.train_steps = 0),
                     num_update_steps_per_epoch |-> state.num_update_steps_per_epoch]
    /\ UNCHANGED <<args, accelerator, global_step, first_epoch, initial_global_step,
                   resume_from_checkpoint_path, load_state_calls, epoch, step,
                   checkpoints, checkpoints0, saved, final_weights_writers,
                   output_lora, step_validations, ckpt_fired, save_attempt, finalize_log>>
    /\ UNCHANGED notTrainVars

\* prepare_for_training: the counts recomputed from the prepared dataloader
PrepareForTraining ==
    /\ \A p \in Procs : pc[p] = "prepare_for_training"
    /\ pc' = [p \in AllProcs |-> IF p \in Procs THEN "prepared" ELSE pc[p]]
    /\ LET e == NumUpdateStepsPerEpoch(PreparedLen(args.len_dataloader, accelerator.num_processes),
                                       args.gradient_accumulation_steps)
           train_steps == IF state.overwrote_max_train_steps THEN state.train_epochs * e
                          ELSE state.train_steps
       IN  state' = [train_epochs |-> TrainEpochs(train_steps, e),
                     train_steps |-> train_steps,
                     overwrote_max_train_steps |-> state.overwrote_max_train_steps,
                     num_update_steps_per_epoch |-> e]
    /\ UNCHANGED <<args, accelerator, global_step, first_epoch, initial_global_step,
                   resume_from_checkpoint_path, load_state_calls, epoch, step,
                   checkpoints, checkpoints0, saved, final_weights_writers,
                   output_lora, step_validations, ckpt_fired, save_attempt, finalize_log>>
    /\ UNCHANGED notTrainVars

\* mutation of SyncGradients: every micro-batch synchronises
SyncGradients_EveryBatch(s) == TRUE

\* accelerator.sync_gradients after the accumulate() context of micro-batch s
\* (0-based) of an epoch: the window closes every gradient_accumulation_steps
\* micro-batches and at the end of the dataloader
SyncGradients(s) ==
    ((s + 1) % args.gradient_accumulation_steps = 0) \/ (s + 1 = args.len_dataloader)

\* mutation of UnpackResume: global_step and first_epoch taken from each other's slot
UnpackResume_Swapped(t) ==
    [resume_from_checkpoint_path |-> t[1], initial_global_step |-> t[2],
     global_step |-> t[4], first_epoch |-> t[3]]

\* the unpacking of the resume tuple into train()'s locals
UnpackResume(t) ==
    [resume_from_checkpoint_path |-> t[1], initial_global_step |-> t[2],
     global_step |-> t[3], first_epoch |-> t[4]]

\* load_state is called only when a resume path was returned
LoadStateCalls(path) == IF path # 0 THEN 1 ELSE 0

\* `for epoch in range(first_epoch, train_epochs)`: with the loop variable at e,
\* the next epoch starts (transformer.train(), first batch) or the loop is left
EpochLoopHead(p, e) ==
    IF e < state.train_epochs
    THEN /\ pc' = [pc EXCEPT ![p] = "batch"]
         /\ step' = [step EXCEPT ![p] = 0]
    ELSE /\ pc' = [pc EXCEPT ![p] = "finalize"]
         /\ UNCHANGED step

\* train() up to the first iteration of the epoch loop
TrainStart(p) ==
    /\ pc[p] = "start"
    /\ LET r == UnpackResume(GetLatestCkptPathToResumeFrom(
                    args.resume_from_checkpoint, state.num_update_steps_per_epoch, checkpoints))
       IN  /\ resume_from_checkpoint_path' = [resume_from_checkpoint_path EXCEPT ![p] = r.resume_from_checkpoint_path]
           /\ initial_global_step' = [initial_global_step EXCEPT ![p] = r.initial_global_step]
           /\ global_step' = [global_step EXCEPT ![p] = r.global_step]
           /\ first_epoch' = [first_epoch EXCEPT ![p] = r.first_epoch]
           /\ load_state_calls' = [load_state_calls EXCEPT ![p] = @ + LoadStateCalls(r.resume_from_checkpoint_path)]
           /\ epoch' = [epoch EXCEPT ![p] = r.first_epoch]
           /\ EpochLoopHead(p, r.first_epoch)
    /\ UNCHANGED <<args, accelerator, state, checkpoints, checkpoints0, saved, final_weights_writers,
                   output_lora, step_validations, ckpt_fired, save_attempt, finalize_log>>
    /\ UNCHANGED notTrainVars

\* the end of a loop iteration: `if global_step >= train_steps: break`, else the
\* next batch of enumerate(dataloader), else the loop is exhausted
AfterStep(p, gs) ==
    IF gs >= state.train_steps \/ step[p] + 1 >= args.len_dataloader
    THEN /\ pc' = [pc EXCEPT ![p] = "epoch_end"]
         /\ UNCHANGED step
    ELSE /\ pc' = [pc EXCEPT ![p] = "batch"]
         /\ step' = [step EXCEPT ![p] = @ + 1]

\* validation_every_n_steps is not None and global_step % validation_every_n_steps == 0
\* (0 stands for None)
ShouldRunValidationStep(gs) ==
    args.validation_every_n_steps # 0 /\ gs % args.validation_every_n_steps = 0

\* validation_every_n_epochs is not None and (epoch + 1) % validation_every_n_epochs == 0
ShouldRunValidationEpoch(e) ==
    args.validation_every_n_epochs # 0 /\ (e + 1) % args.validation_every_n_epochs = 0

\* process p enters self.validate(global_step, final_validation=final)
CallValidate(p, final) ==
    /\ val_pc' = [val_pc EXCEPT ![p] = "enter"]
    /\ val_args' = [val_args EXCEPT !.final_validation = final]
    /\ UNCHANGED <<val_i, val_generated, transformer_mode, pipeline, all_artifacts, tracker_log,
                   val_components, val_lora, val_effects>>
    /\ UNCHANGED <<preVars, hookVars, stepVars, artVars, gradVars>>

\* validate() has returned to its caller on process p
ValidateReturned(p) ==
    /\ val_pc[p] = "done"
    /\ val_pc' = [val_pc EXCEPT ![p] = "absent"]
    /\ UNCHANGED <<val_args, val_i, val_generated, transformer_mode, pipeline, all_artifacts,
                   tracker_log, val_lora, val_effects>>
    /\ UNCHANGED <<preVars, hookVars, stepVars, artVars, gradVars>>

\* the rest of a loop iteration after the `if accelerator.sync_gradients` block of a
\* micro-batch (boundary: the micro-batch closed an accumulation window): the
\* step-based validation check, then the end of the iteration
StepTail(p, gs, boundary) ==
    IF ShouldRunValidationStep(gs)
    THEN /\ pc' = [pc EXCEPT ![p] = "validate_step"]
         /\ step_validations' = [step_validations EXCEPT ![p] =
                                    Append(@, [global_step |-> gs, boundary |-> boundary])]
         /\ CallValidate(p, FALSE)
         /\ UNCHANGED step
    ELSE /\ AfterStep(p, gs)
         /\ UNCHANGED step_validations
         /\ UNCHANGED notTrainVars

\* one micro-batch: forward/backward inside accumulate(); on a window-closing
\* micro-batch the gradients are all-reduced across processes (a collective)
MicroBatch(p) ==
    /\ pc[p] = "batch"
    /\ IF SyncGradients(step[p])
       THEN /\ pc' = [pc EXCEPT ![p] = "allreduce"]
            /\ UNCHANGED <<step, step_validations>>
            /\ UNCHANGED notTrainVars
       ELSE StepTail(p, global_step[p], FALSE)
    /\ UNCHANGED <<args, accelerator, state, global_step, first_epoch, initial_global_step,
                   resume_from_checkpoint_path, load_state_calls, epoch,
                   checkpoints, checkpoints0, saved, final_weights_writers,
                   output_lora, ckpt_fired, save_attempt, finalize_log>>

\* the gradient all-reduce completes once every process has reached it
AllReduce ==
    /\ \A p \in Procs : pc[p] = "allreduce"
    /\ pc' = [p \in AllProcs |-> IF p \in Procs THEN "synced" ELSE pc[p]]
    /\ UNCHANGED <<args, accelerator, state, global_step, first_epoch, initial_global_step,
                   resume_from_checkpoint_path, load_state_calls, epoch, step,
                   checkpoints, checkpoints0, saved, final_weights_writers,
                   output_lora, step_validations, ckpt_fired, save_attempt, finalize_log>>
    /\ UNCHANGED notTrainVars

\* mutation of ShouldCheckpoint: the trigger one step early
ShouldCheckpoint_OneEarly(p, gs) ==
    /\ accelerator.deepspeed \/ IsMainProcess(p)
    /\ (gs + 1) % args.checkpointing_steps = 0

\* mutation of ShouldCheckpoint: the trigger shifted by the rank of the process
ShouldCheckpoint_RankOffset(p, gs) ==
    /\ accelerator.deepspeed \/ IsMainProcess(p)
    /\ (gs + p) % args.checkpointing_steps = 0

\* mutation of IntermediateCkptCall: the save path taken without pruning
IntermediateCkptCall_NoPrune(gs, dir) == dir

\* if DEEPSPEED or is_main_process: if global_step % checkpointing_steps == 0
ShouldCheckpoint(p, gs) ==
    /\ accelerator.deepspeed \/ IsMainProcess(p)
    /\ gs % args.checkpointing_steps = 0

\* save_path = get_intermediate_ckpt_path(checkpointing_limit, step, output_dir)
IntermediateCkptCall(gs, dir) ==
    GetIntermediateCkptPath(args.checkpointing_limit, gs, dir)

\* optimizer step done: global_step += 1, then the checkpoint trigger
StepUpdate(p) ==
    /\ pc[p] = "synced"
    /\ global_step' = [global_step EXCEPT ![p] = @ + 1]
    /\ IF ShouldCheckpoint(p, global_step[p] + 1)
       THEN /\ checkpoints' = IntermediateCkptCall(global_step[p] + 1, checkpoints)
            /\ ckpt_fired' = [ckpt_fired EXCEPT ![p] =
                                 Append(@, [global_step |-> global_step[p] + 1, boundary |-> TRUE])]
            /\ save_attempt' = [save_attempt EXCEPT ![p] =
                                   [step |-> global_step[p] + 1, before |-> checkpoints,
                                    state |-> FALSE, lora |-> FALSE]]
            /\ pc' = [pc EXCEPT ![p] = "save"]
            /\ UNCHANGED <<step, step_validations>>
            /\ UNCHANGED notTrainVars
       ELSE /\ StepTail(p, global_step[p] + 1, TRUE)
            /\ UNCHANGED <<checkpoints, ckpt_fired, save_attempt>>
    /\ UNCHANGED <<args, accelerator, state, first_epoch, initial_global_step,
                   resume_from_checkpoint_path, load_state_calls, epoch,
                   checkpoints0, saved, final_weights_writers, output_lora, finalize_log>>

\* no checkpoint trigger has fired on the process yet
NoAttempt == [step |-> 0, before |-> {}, state |-> FALSE, lora |-> FALSE]

\* mutation of SaveHookWritesLora: the hook writes on every process it runs on
SaveHookWritesLora_Everywhere(p) == TRUE

\* save_model_hook as save_state calls it in training, with the prepared transformer
\* as the only model: the adapter weights file is written on the main process
SaveHookWritesLora(p) ==
    LET r == SaveLoop(<<"transformer">>, 1, {}, <<>>)
    IN  IsMainProcess(p) /\ ~ r.raised /\ r.layers # {}

\* accelerator.save_state(save_path) writes <output_dir>/checkpoint-<global_step>
SaveState(p) ==
    /\ pc[p] = "save"
    /\ checkpoints' = checkpoints \cup {global_step[p]}
    /\ saved' = saved \cup {global_step[p]}
    /\ save_attempt' = [save_attempt EXCEPT ![p] =
                           [@ EXCEPT !.state = TRUE, !.lora = SaveHookWritesLora(p),
                                     !.before = {}]]
    /\ StepTail(p, global_step[p], TRUE)
    /\ UNCHANGED <<args, accelerator, state, global_step, first_epoch, initial_global_step,
                   resume_from_checkpoint_path, load_state_calls, epoch,
                   checkpoints0, final_weights_writers, output_lora, ckpt_fired, finalize_log>>

\* accelerator.save_state(save_path) raises (the save hook's ValueError, an error of
\* the file system): the exception leaves train() and the process halts
SaveStateFails(p) ==
    /\ pc[p] = "save"
    /\ pc' = [pc EXCEPT ![p] = "error"]
    /\ UNCHANGED <<args, accelerator, state, global_step, first_epoch, initial_global_step,
                   resume_from_checkpoint_path, load_state_calls, epoch, step,
                   checkpoints, checkpoints0, saved, final_weights_writers,
                   output_lora, step_validations, ckpt_fired, save_attempt, finalize_log>>
    /\ UNCHANGED notTrainVars

\* a step-triggered validate() has returned: the end of the loop iteration
ValidateStepReturn(p) ==
    /\ pc[p] = "validate_step"
    /\ ValidateReturned(p)
    /\ AfterStep(p, global_step[p])
    /\ UNCHANGED val_components
    /\ UNCHANGED <<args, accelerator, state, global_step, first_epoch, initial_global_step,
                   resume_from_checkpoint_path, load_state_calls, epoch,
                   checkpoints, checkpoints0, saved, final_weights_writers,
                   output_lora, step_validations, ckpt_fired, save_attempt, finalize_log>>

\* the code after the step loop: the epoch-based validation check, then the next
\* epoch of the range
EpochEnd(p) ==
    /\ pc[p] = "epoch_end"
    /\ IF ShouldRunValidationEpoch(epoch[p])
       THEN /\ pc' = [pc EXCEPT ![p] = "validate_epoch"]
            /\ CallValidate(p, FALSE)
            /\ UNCHANGED <<epoch, step>>
       ELSE /\ epoch' = [epoch EXCEPT ![p] = @ + 1]
            /\ EpochLoopHead(p, epoch[p] + 1)
            /\ UNCHANGED notTrainVars
    /\ UNCHANGED <<args, accelerator, state, global_step, first_epoch, initial_global_step,
                   resume_from_checkpoint_path, load_state_calls,
                   checkpoints, checkpoints0, saved, final_weights_writers,
                   output_lora, step_validations, ckpt_fired, save_attempt, finalize_log>>

\* an epoch-triggered validate() has returned: the next epoch of the range
ValidateEpochReturn(p) ==
    /\ pc[p] = "validate_epoch"
    /\ ValidateReturned(p)
    /\ epoch' = [epoch EXCEPT ![p] = @ + 1]
    /\ EpochLoopHead(p, epoch[p] + 1)
    /\ UNCHANGED val_components
    /\ UNCHANGED <<args, accelerator, state, global_step, first_epoch, initial_global_step,
                   resume_from_checkpoint_path, load_state_calls,
                   checkpoints, checkpoints0, saved, final_weights_writers,
                   output_lora, step_validations, ckpt_fired, save_attempt, finalize_log>>

\* accelerator.wait_for_everyone() before the final save
FinalBarrier ==
    /\ \A p \in Procs : pc[p] = "finalize"
    /\ pc' = [p \in AllProcs |-> IF p \in Procs THEN "final_save" ELSE pc[p]]
    /\ finalize_log' = [p \in AllProcs |->
                           IF p \in Procs THEN Append(finalize_log[p], "barrier")
                           ELSE finalize_log[p]]
    /\ UNCHANGED <<args, accelerator, state, global_step, first_epoch, initial_global_step,
                   resume_from_checkpoint_path, load_state_calls, epoch, step,
                   checkpoints, checkpoints0, saved, final_weights_writers,
                   output_lora, step_validations, ckpt_fired, save_attempt>>
    /\ UNCHANGED notTrainVars

\* the final adapter weights written to the output directory (main process only),
\* then the call of validate(final_validation=True)
Finalize(p) ==
    /\ pc[p] = "final_save"
    /\ IF IsMainProcess(p)
       THEN /\ final_weights_writers' = final_weights_writers \cup {p}
            /\ output_lora' = "final"
            /\ finalize_log' = [finalize_log EXCEPT ![p] = @ \o <<"save_weights", "final_validation">>]
       ELSE /\ finalize_log' = [finalize_log EXCEPT ![p] = Append(@, "final_validation")]
            /\ UNCHANGED <<final_weights_writers, output_lora>>
    /\ CallValidate(p, TRUE)
    /\ pc' = [pc EXCEPT ![p] = "final_validate"]
    /\ UNCHANGED <<args, accelerator, state, global_step, first_epoch, initial_global_step,
                   resume_from_checkpoint_path, load_state_calls, epoch, step,
                   checkpoints, checkpoints0, saved, step_validations, ckpt_fired, save_attempt>>

\* mutation of FinalizeTail: the upload on every process
FinalizeTail_UploadEverywhere(p) ==
    (IF args.push_to_hub THEN <<"upload">> ELSE <<>>) \o <<"release", "end_training">>

\* what follows the final validation: the upload of the output directory without
\* checkpoint-* (main process, push_to_hub), the release of the model references
\* and accelerator.end_training()
FinalizeTail(p) ==
    (IF IsMainProcess(p) /\ args.push_to_hub THEN <<"upload">> ELSE <<>>)
    \o <<"release", "end_training">>

\* the final validate() has returned: upload_folder(ignore_patterns=["checkpoint-*"])
\* on the main process if push_to_hub, `del` of the model references, end_training()
FinalizeEnd(p) ==
    /\ pc[p] = "final_validate"
    /\ ValidateReturned(p)
    /\ finalize_log' = [finalize_log EXCEPT ![p] = @ \o FinalizeTail(p)]
    /\ val_components' = [val_components EXCEPT ![p] = "released"]
    /\ pc' = [pc EXCEPT ![p] = "done"]
    /\ UNCHANGED <<args, accelerator, state, global_step, first_epoch, initial_global_step,
                   resume_from_checkpoint_path, load_state_calls, epoch, step,
                   checkpoints, checkpoints0, saved, final_weights_writers,
                   output_lora, step_validations, ckpt_fired, save_attempt>>

\* --------------------------------------------------------- Trainer.validate
\* the elements of a sequence
Range(q) == {q[k] : k \in 1 .. Len(q)}

\* mutation of SkipsPrompt: no process skips a prompt
SkipsPrompt_Never(i, p) == FALSE

\* `if i % accelerator.num_processes != accelerator.process_index: continue`
SkipsPrompt(i, p) == i % accelerator.num_processes # p

\* mutation of NoValidationSamples: validate() goes on without prompts
NoValidationSamples_Never(num_validation_samples) == FALSE

\* `if num_validation_samples == 0: logger.warning(...); return`
NoValidationSamples(num_validation_samples) == num_validation_samples = 0

\* pipeline.load_lora_weights(output_dir) finds no adapter weights file
LoadLoraWeightsFails(file) == file = "absent"

\* validate() up to the prompt loop: the empty-set return, eval mode, the pipeline
ValidateEnter(p) ==
    /\ val_pc[p] = "enter"
    /\ IF NoValidationSamples(val_args.num_validation_samples)
       THEN /\ val_pc' = [val_pc EXCEPT ![p] = "done"]
            /\ UNCHANGED <<transformer_mode, pipeline, val_i, val_generated,
                           val_components, val_lora, val_effects>>
       ELSE /\ transformer_mode' = [transformer_mode EXCEPT ![p] = "eval"]
            /\ val_i' = [val_i EXCEPT ![p] = 0]
            /\ val_generated' = [val_generated EXCEPT ![p] = <<>>]
            /\ IF val_args.final_validation
               THEN \* _delete_components(), a pipeline from the pretrained model,
                    \* then pipeline.load_lora_weights(output_dir)
                    /\ val_components' = [val_components EXCEPT ![p] = "released"]
                    /\ val_lora' = [val_lora EXCEPT ![p] = output_lora]
                    /\ IF LoadLoraWeightsFails(output_lora)
                       THEN /\ pipeline' = [pipeline EXCEPT ![p] = "fresh"]
                            /\ val_pc' = [val_pc EXCEPT ![p] = "error"]
                       ELSE /\ pipeline' = [pipeline EXCEPT ![p] = "fresh_lora"]
                            /\ val_pc' = [val_pc EXCEPT ![p] = "loop"]
                    /\ val_effects' = [val_effects EXCEPT ![p].pipelines = @ + 1,
                                                          ![p].deletes = @ + 1]
               ELSE /\ pipeline' = [pipeline EXCEPT ![p] = "training"]
                    /\ val_pc' = [val_pc EXCEPT ![p] = "loop"]
                    /\ val_effects' = [val_effects EXCEPT ![p].pipelines = @ + 1]
                    /\ UNCHANGED <<val_components, val_lora>>
    /\ UNCHANGED <<val_args, all_artifacts, tracker_log, trainVars, preVars, hookVars, stepVars, artVars, gradVars>>

\* one iteration of `for i in range(num_validation_samples)`: skip the prompt or
\* run the pipeline for it and append its artifacts; after the last one, the gather
ValidateIter(p) ==
    /\ val_pc[p] = "loop"
    /\ IF val_i[p] < val_args.num_validation_samples
       THEN /\ val_generated' = [val_generated EXCEPT ![p] =
                                    IF SkipsPrompt(val_i[p], p) THEN @ ELSE Append(@, val_i[p])]
            /\ val_i' = [val_i EXCEPT ![p] = @ + 1]
            /\ val_effects' = [val_effects EXCEPT ![p].files =
                                   IF SkipsPrompt(val_i[p], p) THEN @ ELSE @ + 1]
            /\ UNCHANGED val_pc
       ELSE /\ val_pc' = [val_pc EXCEPT ![p] = "gather"]
            /\ UNCHANGED <<val_i, val_generated, val_effects>>
    /\ UNCHANGED <<val_args, transformer_mode, pipeline, all_artifacts, tracker_log,
                   val_components, val_lora, trainVars, preVars, hookVars, stepVars, artVars, gradVars>>

\* the per-process artifact lists concatenated in rank order, each artifact <<rank, prompt>>
RECURSIVE GatherFrom(_, _)
GatherFrom(r, lists) ==
    IF r >= accelerator.num_processes THEN <<>>
    ELSE [k \in 1 .. Len(lists[r]) |-> <<r, lists[r][k]>>] \o GatherFrom(r + 1, lists)

\* all_artifacts = gather_object(all_processes_artifacts): a collective
ValidateGather ==
    /\ \A p \in Procs : val_pc[p] = "gather"
    /\ all_artifacts' = [p \in AllProcs |->
                            IF p \in Procs THEN GatherFrom(0, val_generated) ELSE all_artifacts[p]]
    /\ val_pc' = [p \in AllProcs |-> IF p \in Procs THEN "log" ELSE val_pc[p]]
    /\ val_effects' = [p \in AllProcs |->
                          IF p \in Procs THEN [val_effects[p] EXCEPT !.gathers = @ + 1]
                          ELSE val_effects[p]]
    /\ UNCHANGED <<val_args, val_i, val_generated, transformer_mode, pipeline, tracker_log,
                   val_components, val_lora, trainVars, preVars, hookVars, stepVars, artVars, gradVars>>

\* tracker logging on the main process, pipeline released, then wait_for_everyone()
ValidateLog(p) ==
    /\ val_pc[p] = "log"
    /\ tracker_log' =
          IF IsMainProcess(p)
          THEN Append(tracker_log,
                      [key |-> IF val_args.final_validation THEN "final" ELSE "validation",
                       artifacts |-> all_artifacts[p]])
          ELSE tracker_log
    /\ pipeline' = [pipeline EXCEPT ![p] = "none"]
    /\ val_pc' = [val_pc EXCEPT ![p] = "barrier"]
    /\ UNCHANGED <<val_args, val_i, val_generated, transformer_mode, all_artifacts,
                   val_components, val_lora, val_effects, trainVars, preVars, hookVars, stepVars, artVars, gradVars>>

\* accelerator.wait_for_everyone() after the gather
ValidateBarrier ==
    /\ \A p \in Procs : val_pc[p] = "barrier"
    /\ val_pc' = [p \in AllProcs |-> IF p \in Procs THEN "after_barrier" ELSE val_pc[p]]
    /\ val_effects' = [p \in AllProcs |->
                          IF p \in Procs THEN [val_effects[p] EXCEPT !.barriers = @ + 1]
                          ELSE val_effects[p]]
    /\ UNCHANGED <<val_args, val_i, val_generated, transformer_mode, pipeline, all_artifacts,
                   tracker_log, val_components, val_lora, trainVars, preVars, hookVars, stepVars, artVars, gradVars>>

\* mutation of ModeAfterValidate: the mode is left as validate() set it
ModeAfterValidate_Keeps(final_validation, mode) == mode

\* `if not final_validation: self.transformer.train()`
ModeAfterValidate(final_validation, mode) == IF final_validation THEN mode ELSE "train"

\* the end of validate() after the barrier: the mode of the transformer, the return
ValidateReturn(p) ==
    /\ val_pc[p] = "after_barrier"
    /\ transformer_mode' = [transformer_mode EXCEPT ![p] =
                               ModeAfterValidate(val_args.final_validation, @)]
    /\ val_pc' = [val_pc EXCEPT ![p] = "done"]
    /\ UNCHANGED <<val_args, val_i, val_generated, pipeline, all_artifacts, tracker_log,
                   val_components, val_lora, val_effects, trainVars, preVars, hookVars, stepVars, artVars, gradVars>>

\* ----------------------------------------- Trainer.prepare_precomputations
\* utils/data_utils.should_perform_precomputation: the cache is complete when the
\* condition and the latent directory each hold as many artifacts as the dataset
ShouldPerformPrecomputation(cond, lat, len_dataset) ==
    ~ (Cardinality(DOMAIN cond) = len_dataset /\ Cardinality(DOMAIN lat) = len_dataset)

\* mutation of BatchSizeUnsupported: any batch size accepted
BatchSizeUnsupported_Never == FALSE

\* `if self.args.batch_size != 1: raise ValueError(...)`
BatchSizeUnsupported == pre_args.batch_size # 1

\* mutation of SkipsSample: every process encodes every sample
SkipsSample_Never(i, p) == FALSE

\* `if i % num_processes != process_index: continue` in both precomputation loops
SkipsSample(i, p) == i % accelerator.num_processes # p

\* mutation of ConditionsFilename: the sample number left out of the name
ConditionsFilename_IndexOnly(p, i, index) == <<"conditions", 0, index>>

\* conditions_dir / f"conditions-{i}-{index}.pt"
ConditionsFilename(p, i, index) == <<"conditions", i, index>>

\* mutation of LatentsFilename: the process index left out of the name
LatentsFilename_NoRank(p, i, index) == <<"latents", 0, index>>

\* latents_dir / f"latents-{process_index}-{index}.pt"
LatentsFilename(p, i, index) == <<"latents", p, index>>

\* torch.save(obj, filename): the file is created or overwritten
WriteFile(dir, name, sample) == (name :> sample) @@ dir

\* _set_components(condition_components) / _set_components(latent_components)
ConditionComponents == {"tokenizer", "text_encoder"}
LatentComponents == {"vae"}
AllComponents == ConditionComponents \cup LatentComponents \cup {"transformer", "scheduler"}

\* mutation of DeleteComponents: the conditioning encoders stay referenced
DeleteComponents_KeepsEncoders(held) == held \cap ConditionComponents

\* _delete_components(): every component attribute is set to None
DeleteComponents(held) == {}

\* the early return, then the batch-size check
PrecomputeEnter(p) ==
    /\ pre_pc[p] = "enter"
    /\ pre_pc' = [pre_pc EXCEPT ![p] =
                     IF ~ pre_args.precompute_conditions THEN "done"
                     ELSE IF BatchSizeUnsupported THEN "error"
                     ELSE "check"]
    /\ UNCHANGED <<pre_args, pre_i, pre_index, components, dataloader, conditions_dir, latents_dir,
                   dirs_made, cache_checks, encoder_loads, encodings, file_writes, write_log, writing, invocation,
                   trainVars, valVars, hookVars, stepVars, artVars, gradVars>>

\* should_perform_precomputation: a complete cache switches the dataloader and returns
PrecomputeCheck(p) ==
    /\ pre_pc[p] = "check"
    /\ cache_checks' = [cache_checks EXCEPT ![p] = @ + 1]
    /\ IF ShouldPerformPrecomputation(conditions_dir, latents_dir, pre_args.len_dataset)
       THEN /\ pre_pc' = [pre_pc EXCEPT ![p] = "load_conditions"]
            /\ UNCHANGED dataloader
       ELSE /\ dataloader' = [dataloader EXCEPT ![p] = "precomputed"]
            /\ pre_pc' = [pre_pc EXCEPT ![p] = "done"]
    /\ UNCHANGED <<pre_args, pre_i, pre_index, components, conditions_dir, latents_dir,
                   dirs_made, encoder_loads, encodings, file_writes, write_log, writing, invocation,
                   trainVars, valVars, hookVars, stepVars, artVars, gradVars>>

\* load_condition_models, _set_components, the two mkdir calls, index = 0
PrecomputeLoadConditions(p) ==
    /\ pre_pc[p] = "load_conditions"
    /\ components' = [components EXCEPT ![p] = @ \cup ConditionComponents]
    /\ encoder_loads' = [encoder_loads EXCEPT ![p] = @ + 1]
    /\ dirs_made' = TRUE
    /\ pre_i' = [pre_i EXCEPT ![p] = 0]
    /\ pre_index' = [pre_index EXCEPT ![p] = 0]
    /\ pre_pc' = [pre_pc EXCEPT ![p] = "conditions_loop"]
    /\ UNCHANGED <<pre_args, dataloader, conditions_dir, latents_dir, cache_checks, encodings,
                   file_writes, write_log, writing, invocation, trainVars, valVars, hookVars, stepVars, artVars, gradVars>>

\* one iteration of the conditions loop; after the last one, _delete_components()
PrecomputeConditionsIter(p) ==
    /\ pre_pc[p] = "conditions_loop"
    /\ writing[p] = <<>>
    /\ IF pre_i[p] < pre_args.len_dataset
       THEN /\ pre_i' = [pre_i EXCEPT ![p] = @ + 1]
            /\ IF SkipsSample(pre_i[p], p)
               THEN UNCHANGED <<pre_index, conditions_dir, encodings, file_writes, write_log, writing>>
               ELSE /\ conditions_dir' = WriteFile(conditions_dir,
                                             ConditionsFilename(p, pre_i[p], pre_index[p]), pre_i[p])
                    /\ pre_index' = [pre_index EXCEPT ![p] = @ + 1]
                    /\ encodings' = [encodings EXCEPT ![p] = @ + 1]
                    /\ file_writes' = [file_writes EXCEPT ![p] = @ + 1]
                    /\ write_log' = write_log \cup
                          {[by |-> p, path |-> ConditionsFilename(p, pre_i[p], pre_index[p]),
                            sample |-> pre_i[p]]}
                    /\ writing' = [writing EXCEPT ![p] =
                                       ConditionsFilename(p, pre_i[p], pre_index[p])]
            /\ UNCHANGED <<pre_pc, components>>
       ELSE /\ components' = [components EXCEPT ![p] = DeleteComponents(@)]
            /\ pre_pc' = [pre_pc EXCEPT ![p] = "load_latents"]
            /\ UNCHANGED <<pre_i, pre_index, conditions_dir, encodings, file_writes, write_log, writing>>
    /\ UNCHANGED <<pre_args, dataloader, latents_dir, dirs_made, cache_checks, encoder_loads,
                   invocation, trainVars, valVars, hookVars, stepVars, artVars, gradVars>>

\* torch.save returns: the file it created is now whole
PrecomputeSaveReturns(p) ==
    /\ writing[p] # <<>>
    /\ writing' = [writing EXCEPT ![p] = <<>>]
    /\ UNCHANGED <<pre_args, pre_pc, pre_i, pre_index, components, dataloader, conditions_dir,
                   latents_dir, dirs_made, cache_checks, encoder_loads, encodings, file_writes,
                   write_log, invocation, trainVars, valVars, hookVars, stepVars, artVars, gradVars>>

\* load_latent_models, _set_components, index = 0
PrecomputeLoadLatents(p) ==
    /\ pre_pc[p] = "load_latents"
    /\ components' = [components EXCEPT ![p] = @ \cup LatentComponents]
    /\ encoder_loads' = [encoder_loads EXCEPT ![p] = @ + 1]
    /\ pre_i' = [pre_i EXCEPT ![p] = 0]
    /\ pre_index' = [pre_index EXCEPT ![p] = 0]
    /\ pre_pc' = [pre_pc EXCEPT ![p] = "latents_loop"]
    /\ UNCHANGED <<pre_args, dataloader, conditions_dir, latents_dir, dirs_made, cache_checks,
                   encodings, file_writes, write_log, writing, invocation, trainVars, valVars, hookVars, stepVars, artVars, gradVars>>

\* one iteration of the latents loop; after the last one, _delete_components()
\* and the arrival at wait_for_everyone()
PrecomputeLatentsIter(p) ==
    /\ pre_pc[p] = "latents_loop"
    /\ writing[p] = <<>>
    /\ IF pre_i[p] < pre_args.len_dataset
       THEN /\ pre_i' = [pre_i EXCEPT ![p] = @ + 1]
            /\ IF SkipsSample(pre_i[p], p)
               THEN UNCHANGED <<pre_index, latents_dir, encodings, file_writes, write_log, writing>>
               ELSE /\ latents_dir' = WriteFile(latents_dir,
                                          LatentsFilename(p, pre_i[p], pre_index[p]), pre_i[p])
                    /\ pre_index' = [pre_index EXCEPT ![p] = @ + 1]
                    /\ encodings' = [encodings EXCEPT ![p] = @ + 1]
                    /\ file_writes' = [file_writes EXCEPT ![p] = @ + 1]
                    /\ write_log' = write_log \cup
                          {[by |-> p, path |-> LatentsFilename(p, pre_i[p], pre_index[p]),
                            sample |-> pre_i[p]]}
                    /\ writing' = [writing EXCEPT ![p] =
                                       LatentsFilename(p, pre_i[p], pre_index[p])]
            /\ UNCHANGED <<pre_pc, components>>
       ELSE /\ components' = [components EXCEPT ![p] = DeleteComponents(@)]
            /\ pre_pc' = [pre_pc EXCEPT ![p] = "barrier"]
            /\ UNCHANGED <<pre_i, pre_index, latents_dir, encodings, file_writes, write_log, writing>>
    /\ UNCHANGED <<pre_args, dataloader, conditions_dir, dirs_made, cache_checks, encoder_loads,
                   invocation, trainVars, valVars, hookVars, stepVars, artVars, gradVars>>

\* the processes that wait_for_everyone() lets go: all of them once all have arrived
BarrierLeavers(at) == IF \A p \in Procs : at[p] = "barrier" THEN Procs ELSE {}

\* accelerator.wait_for_everyone() after the latents phase
PrecomputeBarrier ==
    /\ BarrierLeavers(pre_pc) # {}
    /\ pre_pc' = [p \in AllProcs |-> IF p \in BarrierLeavers(pre_pc) THEN "switch" ELSE pre_pc[p]]
    /\ UNCHANGED <<pre_args, pre_i, pre_index, components, dataloader, conditions_dir, latents_dir,
                   dirs_made, cache_checks, encoder_loads, encodings, file_writes, write_log, writing, invocation,
                   trainVars, valVars, hookVars, stepVars, artVars, gradVars>>

\* the dataloader over PrecomputedDataset(data_root)
PrecomputeSwitch(p) ==
    /\ pre_pc[p] = "switch"
    /\ dataloader' = [dataloader EXCEPT ![p] = "precomputed"]
    /\ pre_pc' = [pre_pc EXCEPT ![p] = "done"]
    /\ UNCHANGED <<pre_args, pre_i, pre_index, components, conditions_dir, latents_dir,
                   dirs_made, cache_checks, encoder_loads, encodings, file_writes, write_log, writing, invocation,
                   trainVars, valVars, hookVars, stepVars, artVars, gradVars>>

\* prepare_models: with precompute_conditions no component is loaded
PreparedComponents == IF pre_args.precompute_conditions THEN {} ELSE AllComponents

\* the program run again against the same data root, once every process of the
\* first run has returned: prepare_dataset and prepare_models, then the same call
PrecomputeRerun ==
    /\ invocation = 1
    /\ \A p \in Procs : pre_pc[p] = "done"
    /\ invocation' = 2
    /\ pre_pc' = [p \in AllProcs |-> IF p \in Procs THEN "enter" ELSE pre_pc[p]]
    /\ dataloader' = [p \in AllProcs |-> "dataset"]
    /\ components' = [p \in AllProcs |-> PreparedComponents]
    /\ pre_i' = [p \in AllProcs |-> 0]
    /\ pre_index' = [p \in AllProcs |-> 0]
    /\ cache_checks' = [p \in AllProcs |-> 0]
    /\ encoder_loads' = [p \in AllProcs |-> 0]
    /\ encodings' = [p \in AllProcs |-> 0]
    /\ file_writes' = [p \in AllProcs |-> 0]
    /\ write_log' = {}
    /\ UNCHANGED writing
    /\ UNCHANGED <<pre_args, conditions_dir, latents_dir, dirs_made, trainVars, valVars, hookVars, stepVars, artVars, gradVars>>

\* ------------------------------------------- register_saving_loading_hooks
\* pipeline_cls.save_lora_weights(output_dir, transformer_lora_layers=...): the
\* keys are stored under the "transformer" prefix
SaveLoraWeights(layers) == {<<"transformer">> \o k : k \in layers}

\* add_adapter(transformer_lora_config) with init_lora_weights=True: the adapter
\* weights of a newly fitted model
InitLora == [k \in AdapterKeys |-> "initial"]

\* get_peft_model_state_dict(model) as save_lora_weights stores it: the adapter
\* weights of the model under the prefixed keys
PeftModelStateDict(model, layers) == [x \in SaveLoraWeights(layers) |-> model[Tail(x)]]

\* the adapter file found in the checkpoint directory of an earlier run
EarlierFile(keys) == [x \in keys |-> "earlier"]

\* save_model_hook(models, weights, output_dir) on process p; save_state runs it on
\* the main process and, under DeepSpeed, on every process
SaveModelHook(p) ==
    /\ hook_pc = "ready"
    /\ dtypes.optimizer # "none"
    /\ hook_in.rank = p
    /\ accelerator.deepspeed \/ IsMainProcess(p)
    /\ hook_pc' = "saved"
    /\ IF IsMainProcess(p)
       THEN LET r == SaveLoop(hook_models, 1, {}, hook_weights)
            IN  /\ hook_weights' = r.weights
                /\ IF r.raised
                   THEN /\ save_result' = "unexpected_save_model"
                        /\ UNCHANGED <<ckpt_lora, lora_writes, lora>>
                   ELSE IF r.layers = {}
                        THEN \* no layers to save: save_lora_weights refuses
                             /\ save_result' = "nothing_to_save"
                             /\ UNCHANGED <<ckpt_lora, lora_writes, lora>>
                        ELSE /\ save_result' = "returned"
                             /\ ckpt_lora' = SaveLoraWeights(r.layers)
                             /\ lora_writes' = lora_writes + 1
                             /\ lora' = [lora EXCEPT !.file = PeftModelStateDict(lora.training, r.layers)]
       ELSE /\ save_result' = "returned"
            /\ UNCHANGED <<hook_weights, ckpt_lora, lora_writes, lora>>
    /\ UNCHANGED <<hook_in, hook_models, load_result, load_target, loaded_keys, hook_warnings,
                   cast_calls, dtypes, trainVars, valVars, preVars, stepVars, artVars, gradVars>>

\* the `while len(models) > 0: model = models.pop()` loop of the load hook: the
\* transformer found (if any), whether another model raised, and the list left
RECURSIVE LoadLoop(_, _)
LoadLoop(models, found) ==
    IF models = <<>> THEN [raised |-> FALSE, found |-> found, models |-> models]
    ELSE LET model == models[Len(models)]
             rest == SubSeq(models, 1, Len(models) - 1)
         IN  IF IsTransformerType(model) THEN LoadLoop(rest, TRUE)
             ELSE [raised |-> TRUE, found |-> found, models |-> rest]

\* k.startswith("transformer.")
StartsWithTransformer(k) == Len(k) >= 2 /\ k[1] = "transformer"

\* k.replace("transformer.", ""): every component "transformer" that is followed by
\* another component is removed
RECURSIVE ReplaceTransformer(_)
ReplaceTransformer(k) ==
    IF Len(k) <= 1 THEN k
    ELSE IF k[1] = "transformer" THEN ReplaceTransformer(Tail(k))
         ELSE <<k[1]>> \o ReplaceTransformer(Tail(k))

\* transformer_state_dict of the load hook, from the lora_state_dict of input_dir
TransformerStateDict(lora_state_dict) ==
    {ReplaceTransformer(k) : k \in {x \in lora_state_dict : StartsWithTransformer(x)}}

\* set_peft_model_state_dict(transformer_, transformer_state_dict) for the state dict
\* the hook builds from the file: the adapter keys it holds are overwritten
SetPeftModelStateDict(model, file) ==
    LET from == {x \in DOMAIN file : StartsWithTransformer(x)}
    IN  [k \in AdapterKeys |->
            IF \E x \in from : ReplaceTransformer(x) = k
            THEN file[CHOOSE x \in from : ReplaceTransformer(x) = k]
            ELSE model[k]]

\* set_peft_model_state_dict: the keys the model does not have are reported
UnexpectedKeys(state_dict) == state_dict \ AdapterKeys

\* mutation of UnexpectedKeysOutcome: unexpected keys are an error
UnexpectedKeysOutcome_Raise(unexpected_keys) == IF unexpected_keys # {} THEN "raise" ELSE "none"

\* `if unexpected_keys: logger.warning(...)`: what unexpected keys lead to
UnexpectedKeysOutcome(unexpected_keys) == IF unexpected_keys # {} THEN "warning" ELSE "none"

\* `if self.args.mixed_precision == "fp16": cast_training_params([transformer_])`
CastsTrainingParams(mixed_precision) == mixed_precision = "fp16"

\* _get_training_dtype: the dtype the transformer is cast to before add_adapter; the
\* adapter parameters are created in the dtype of the layers they wrap
WeightDtype(mixed_precision) ==
    CASE mixed_precision = "fp16" -> "float16"
      [] mixed_precision = "bf16" -> "bfloat16"
      [] OTHER -> "float32"

\* prepare_trainable_parameters: transformer.to(dtype=weight_dtype), add_adapter
PreparedDtypes(mixed_precision) ==
    [adapter |-> WeightDtype(mixed_precision), backbone |-> WeightDtype(mixed_precision)]

\* from_pretrained(pretrained_model_name_or_path, subfolder="transformer") without a
\* torch_dtype, then add_adapter: a full-precision model
FromPretrained == [adapter |-> "float32", backbone |-> "float32"]

\* cast_training_params(models, dtype=torch.float32): the parameters that require
\* gradients are upcast, the others are left alone
CastTrainingParams(model) == [model EXCEPT !.adapter = "float32"]

\* no parameter has been looked at yet
NoDtypes == [transformer |-> PreparedDtypes("no"), optimizer |-> "none", loaded |-> "none"]

\* prepare_optimizer: under fp16 the trainable parameters of self.transformer are
\* upcast; the parameters that require gradients are handed to the optimizer
PrepareOptimizer ==
    /\ hook_pc \in {"ready", "resumed"}
    /\ dtypes.optimizer = "none"
    /\ LET model == IF CastsTrainingParams(hook_in.mixed_precision)
                    THEN CastTrainingParams(dtypes.transformer) ELSE dtypes.transformer
       IN  dtypes' = [dtypes EXCEPT !.transformer = model, !.optimizer = model.adapter]
    /\ UNCHANGED <<hook_in, hook_pc, hook_models, hook_weights, ckpt_lora, lora_writes,
                   save_result, load_result, load_target, loaded_keys, hook_warnings,
                   cast_calls, lora, trainVars, valVars, preVars, stepVars, artVars, gradVars>>

\* the optimizer steps of the run up to its first checkpoint: the adapter weights
\* leave their initial values
TrainAdapter ==
    /\ hook_pc = "ready"
    /\ dtypes.optimizer # "none"
    /\ lora.training = InitLora
    /\ lora' = [lora EXCEPT !.training = [k \in AdapterKeys |-> "trained"]]
    /\ UNCHANGED <<hook_in, hook_pc, hook_models, hook_weights, ckpt_lora, lora_writes,
                   save_result, load_result, load_target, loaded_keys, hook_warnings,
                   cast_calls, dtypes, trainVars, valVars, preVars, stepVars, artVars, gradVars>>

\* the program started again to resume from the checkpoint just saved: the
\* transformer is loaded and fitted with a new adapter, the models are prepared, and
\* train() is about to call load_state
ResumeRun ==
    /\ hook_pc = "saved"
    /\ hook_pc' = "resumed"
    /\ hook_models' = hook_in.models
    /\ dtypes' = [transformer |-> PreparedDtypes(hook_in.mixed_precision),
                  optimizer |-> "none", loaded |-> "none"]
    /\ lora' = [lora EXCEPT !.training = InitLora, !.fresh = InitLora]
    /\ UNCHANGED <<hook_in, hook_weights, ckpt_lora, lora_writes, save_result, load_result,
                   load_target, loaded_keys, hook_warnings, cast_calls,
                   trainVars, valVars, preVars, stepVars, artVars, gradVars>>

\* load_model_hook(models, input_dir) on process p
LoadModelHook(p) ==
    /\ hook_pc \in {"ready", "saved", "resumed"}
    /\ dtypes.optimizer # "none"
    /\ hook_in.rank = p
    /\ hook_pc' = "loaded"
    /\ LET r == IF accelerator.deepspeed
                THEN [raised |-> FALSE, found |-> TRUE, models |-> hook_models]
                ELSE LoadLoop(hook_models, FALSE)
           sd == TransformerStateDict(ckpt_lora)
           outcome == UnexpectedKeysOutcome(UnexpectedKeys(sd))
       IN  /\ hook_models' = r.models
           /\ IF r.raised \/ ~ r.found \/ outcome = "raise"
              THEN /\ load_result' = IF r.raised THEN "unexpected_save_model"
                                     ELSE IF ~ r.found THEN "unbound_transformer"
                                     ELSE "unexpected_keys"
                   /\ UNCHANGED <<load_target, loaded_keys, hook_warnings, cast_calls, dtypes,
                                  lora>>
              ELSE /\ load_result' = "returned"
                   /\ load_target' = IF accelerator.deepspeed THEN "fresh_model" ELSE "training_model"
                   /\ loaded_keys' = sd \cap AdapterKeys
                   /\ hook_warnings' = hook_warnings + (IF outcome = "warning" THEN 1 ELSE 0)
                   /\ cast_calls' = cast_calls + (IF CastsTrainingParams(hook_in.mixed_precision) THEN 1 ELSE 0)
                   /\ LET model == IF accelerator.deepspeed THEN FromPretrained
                                   ELSE dtypes.transformer
                          after == IF CastsTrainingParams(hook_in.mixed_precision)
                                   THEN CastTrainingParams(model) ELSE model
                      IN  dtypes' = [dtypes EXCEPT !.loaded = after,
                                                   !.transformer = IF accelerator.deepspeed
                                                                   THEN @ ELSE after]
                   /\ lora' = IF accelerator.deepspeed
                              THEN [lora EXCEPT !.fresh = SetPeftModelStateDict(InitLora, lora.file)]
                              ELSE [lora EXCEPT !.training =
                                                    SetPeftModelStateDict(lora.training, lora.file)]
    /\ UNCHANGED <<hook_in, hook_weights, ckpt_lora, lora_writes, save_result,
                   trainVars, valVars, preVars, stepVars, artVars, gradVars>>

\* --------------------------------------- Trainer.train: one micro-batch
\* fractions in [0, 1] are numerators over Den
Den == 2 * HalfDen

\* prepare_conditions: the embedding and the attention mask of each prompt (every
\* prompt, the empty one included, has a non-zero embedding and an attended token)
PrepareConditions(prompts) ==
    [prompt_embeds |-> [k \in 1 .. Len(prompts) |-> IF prompts[k] = "" THEN 1 ELSE 2],
     prompt_attention_mask |-> [k \in 1 .. Len(prompts) |-> TRUE]]

\* mutation of DropoutDraw: a draw equal to the probability also drops
DropoutDraw_AtMost(random, caption_dropout_p) == random <= caption_dropout_p

\* `random.random() < self.args.caption_dropout_p`, both as numerators over Den
DropoutDraw(random, caption_dropout_p) == random < caption_dropout_p

\* `if caption_dropout_technique == "empty": if random.random() < p:` (live encoding only)
AppliesEmpty(a, random) ==
    /\ ~ a.precompute_conditions
    /\ a.caption_dropout_technique = "empty"
    /\ DropoutDraw(random, a.caption_dropout_p)

\* `if caption_dropout_technique == "zero": if random.random() < p:`
AppliesZero(a, random) ==
    /\ a.caption_dropout_technique = "zero"
    /\ DropoutDraw(random, a.caption_dropout_p)

\* prepare_precomputations, when it recomputes: `if caption_dropout_p > 0 and
\* caption_dropout_technique == "empty": logger.warning("Caption dropout is not
\* supported with precomputation yet...")`
WarnsUnsupportedDropout(a) ==
    a.caption_dropout_p > 0 /\ a.caption_dropout_technique = "empty"

\* prompts = [""] * batch_size
EmptyPrompts(prompts) == [k \in 1 .. Len(prompts) |-> ""]

\* prompt_embeds.fill_(0); prompt_attention_mask.fill_(False)
ZeroConditions(c) ==
    [prompt_embeds |-> [k \in 1 .. Len(c.prompt_embeds) |-> 0],
     prompt_attention_mask |-> [k \in 1 .. Len(c.prompt_attention_mask) |-> FALSE]]

\* the prompts handed to prepare_conditions for micro-batch b
PromptsPassed(a, b) ==
    IF AppliesEmpty(a, b.random) THEN EmptyPrompts(b.prompts) ELSE b.prompts

\* the text conditions handed to forward_pass: encoded live from the prompts passed
\* or read from the cache (encoded from the prompts of the dataset), then zeroed or not
TextConditions(a, b) ==
    LET c == IF a.precompute_conditions THEN PrepareConditions(b.prompts)
             ELSE PrepareConditions(PromptsPassed(a, b))
    IN  IF AppliesZero(a, b.random) THEN ZeroConditions(c) ELSE c

\* mutation of NoisyLatents: sigma weighs the clean latent
NoisyLatents_SigmaOnLatents(sigma, latents, noise) == sigma * latents + (Den - sigma) * noise

\* noisy_latents = (1.0 - sigmas) * latents + sigmas * noise, with sigma a numerator
\* over Den: the numerator of the result over Den
NoisyLatents(sigma, latents, noise) == (Den - sigma) * latents + sigma * noise

\* target = noise - latents
Target(latents, noise) == noise - latents

\* mutation of OptimizerEvents: optimizer, scheduler and zero_grad on every micro-batch
OptimizerEvents_EveryBatch(deepspeed, sync) ==
    IF deepspeed THEN <<"backward", "engine_step", "readout">>
    ELSE <<"backward", "clip", "optimizer_step", "scheduler_step", "zero_grad">>

\* what takes effect during one micro-batch, in order. accelerator.backward(loss)
\* adds the gradients; under DeepSpeed it also runs engine.step(), which at a window
\* boundary applies, zeroes and steps the scheduler. Then `if sync_gradients:` the
\* global-norm readout (DeepSpeed) or clip_grad_norm_; then optimizer.step(),
\* lr_scheduler.step() and optimizer.zero_grad(), which the prepared optimizer and
\* scheduler skip outside a boundary and which do nothing under DeepSpeed
OptimizerEvents(deepspeed, sync) ==
    <<"backward">>
    \o (IF deepspeed /\ sync THEN <<"engine_step">> ELSE <<>>)
    \o (IF sync THEN (IF deepspeed THEN <<"readout">> ELSE <<"clip">>) ELSE <<>>)
    \o (IF ~ deepspeed /\ sync THEN <<"optimizer_step", "scheduler_step", "zero_grad">> ELSE <<>>)

\* an event of the list applies the accumulated gradients
HasUpdate(evs) == \E k \in 1 .. Len(evs) : evs[k] \in {"optimizer_step", "engine_step"}

\* an event of the list zeroes the gradients
HasZeroGrad(evs) == \E k \in 1 .. Len(evs) : evs[k] \in {"zero_grad", "engine_step"}

\* an event of the list steps the learning-rate scheduler
HasSchedulerStep(evs) == \E k \in 1 .. Len(evs) : evs[k] \in {"scheduler_step", "engine_step"}

\* accelerator.sync_gradients for micro-batch s of the epoch
BatchSyncGradients(s) ==
    ((s + 1) % batch_args.gradient_accumulation_steps = 0) \/ (s + 1 = batch_args.len_dataloader)

\* the micro-batches a dataloader can yield, with the sigma, the noise and the value
\* of random.random() drawn for them (one draw: one technique is configured)
AllBatches ==
    [prompts : UNION {[1 .. k -> {"", "a cat"}] : k \in 1 .. MaxBatchSize},
     latents : -MaxLatent .. MaxLatent,
     noise : -MaxLatent .. MaxLatent,
     sigma : 0 .. Den,
     random : 0 .. Den - 1]

\* an epoch of one micro-batch is computed for every batch, a longer one for one
\* batch whatever the step (the accumulation window does not read the data)
BatchInputs(a) ==
    IF a.len_dataloader = 1 THEN AllBatches
    ELSE {[prompts |-> <<"a cat">>, latents |-> 1, noise |-> 0, sigma |-> HalfDen,
           random |-> r] : r \in 0 .. Den - 1}

\* one iteration of `for step, batch in enumerate(self.dataloader)` up to the end of
\* the accumulate() context: conditions, noisy latents, target, backward, update
TrainingStep ==
    /\ batch_pc = "batch"
    /\ \E b \in BatchInputs(batch_args) :
          LET evs == OptimizerEvents(batch_args.deepspeed, BatchSyncGradients(batch_step))
          IN  /\ batch' = b
              /\ passed_prompts' = IF batch_args.precompute_conditions THEN <<>>
                                   ELSE PromptsPassed(batch_args, b)
              /\ text_conditions' = TextConditions(batch_args, b)
              /\ dropped' = (IF AppliesEmpty(batch_args, b.random) THEN {"empty"} ELSE {})
                            \cup (IF AppliesZero(batch_args, b.random) THEN {"zero"} ELSE {})
              /\ noisy_latents' = NoisyLatents(b.sigma, b.latents, b.noise)
              /\ target' = Target(b.latents, b.noise)
              /\ events' = evs
              /\ updates' = IF HasUpdate(evs) THEN Append(updates, grads + 1) ELSE updates
              /\ grads' = IF HasZeroGrad(evs) THEN 0 ELSE grads + 1
              /\ scheduler_steps' = scheduler_steps + (IF HasSchedulerStep(evs) THEN 1 ELSE 0)
    /\ IF batch_step + 1 < batch_args.len_dataloader
       THEN /\ batch_step' = batch_step + 1
            /\ UNCHANGED batch_pc
       ELSE /\ batch_pc' = "epoch_end"
            /\ UNCHANGED batch_step
    /\ UNCHANGED <<batch_args, trainVars, valVars, preVars, hookVars, artVars, gradVars>>

\* ------------------------------------ Trainer.validate: the artifact files
\* utils.string_to_filename: the characters a file name cannot hold are replaced
StringToFilename(str) ==
    [k \in 1 .. Len(str) |-> IF str[k] \in {" ", "/"} THEN "-" ELSE str[k]]

\* prompt_filename = string_to_filename(prompt)[:25]
PromptFilename(prompt) ==
    LET name == StringToFilename(prompt)
    IN  SubSeq(name, 1, IF Len(name) < 25 THEN Len(name) ELSE 25)

\* extension = "png" if artifact_type == "image" else "mp4"
Extension(artifact_type) == IF artifact_type = "image" THEN "png" ELSE "mp4"

\* filename = f"validation-{step}-{process_index}-{prompt_filename}.{extension}"
ArtifactFilename(step_, process_index, prompt_filename, extension) ==
    <<"validation", step_, process_index, prompt_filename, extension>>

\* the `artifacts` dict built for one prompt: the input image and video (None when
\* not configured) and artifact_0 .. artifact_{n-1} returned by the pipeline
Artifacts(sample, num_videos, output_type) ==
    {[key |-> <<"image">>, type |-> "image", none |-> ~ sample.image],
     [key |-> <<"video">>, type |-> "video", none |-> ~ sample.video]}
    \cup {[key |-> <<"artifact", k>>, type |-> output_type, none |-> FALSE] : k \in 0 .. num_videos - 1}

\* `if artifact_type not in ["image", "video"] or artifact_value is None: continue`
SavedArtifacts(sample, num_videos, output_type) ==
    {a \in Artifacts(sample, num_videos, output_type) : a.type \in {"image", "video"} /\ ~ a.none}

\* one iteration of `for i in range(num_validation_samples)` on process p: the
\* prompt is skipped, or the pipeline runs and every artifact that has a value is
\* saved under its file name
SaveArtifacts(p) ==
    /\ art_i[p] < Len(art_args.samples)
    /\ art_i' = [art_i EXCEPT ![p] = @ + 1]
    /\ IF SkipsPrompt(art_i[p], p)
       THEN UNCHANGED art_writes
       ELSE LET sample == art_args.samples[art_i[p] + 1]
            IN  art_writes' = art_writes \cup
                    {[by |-> p, i |-> art_i[p], key |-> a.key,
                      path |-> ArtifactFilename(art_args.step, p, PromptFilename(sample.prompt),
                                                Extension(a.type))] :
                        a \in SavedArtifacts(sample, art_args.num_videos, art_args.output_type)}
    /\ UNCHANGED <<art_args, trainVars, valVars, preVars, hookVars, stepVars, gradVars>>

\* ------------------------------------- trainable and frozen parameters
\* the parameter groups: of the text encoders, of the latent encoder, of the
\* transformer as loaded (backbone) and of the adapter fitted to it
EncoderGroups == {"text_encoder", "text_encoder_2", "text_encoder_3", "vae"}
FrozenGroups == EncoderGroups \cup {"backbone"}

\* the groups of a component of components_to_disable_grads at the time of the call
ComponentGroups(component) == IF component = "transformer" THEN {"backbone"} ELSE {component}

\* mutation of ComponentsToDisableGrads: the transformer left out
ComponentsToDisableGrads_EncodersOnly == <<"text_encoder", "text_encoder_2", "text_encoder_3", "vae">>

\* components_to_disable_grads of prepare_trainable_parameters
ComponentsToDisableGrads == <<"text_encoder", "text_encoder_2", "text_encoder_3", "transformer", "vae">>

\* `for component in components_to_disable_grads: if component is not None:
\* component.requires_grad_(False)`
DisableGrads(rg, comps) ==
    LET off == UNION {ComponentGroups(comps[k]) : k \in 1 .. Len(comps)}
    IN  [g \in DOMAIN rg |-> IF g \in off THEN FALSE ELSE rg[g]]

\* self.transformer.add_adapter(transformer_lora_config): new parameters that
\* require gradients; the parameters already there keep their flag
AddAdapter(rg) == [g \in DOMAIN rg \cup {"adapter"} |-> IF g = "adapter" THEN TRUE ELSE rg[g]]

\* the groups held after prepare_models and prepare_precomputations, before
\* load_diffusion_models: with precomputation the encoders have been released (or were
\* never loaded); parameters are loaded with requires_grad set
LoadedGroups(in) ==
    IF in.precompute_conditions THEN {}
    ELSE {"text_encoder", "vae"} \cup in.optional_encoders

\* prepare_trainable_parameters: load_diffusion_models, the gradients disabled, the
\* transformer cast, the adapter attached
PrepareTrainableParameters ==
    /\ grad_pc = "models"
    /\ grad_pc' = "trainable"
    /\ LET loaded == [g \in DOMAIN requires_grad \cup {"backbone"} |-> TRUE]
       IN  requires_grad' = AddAdapter(DisableGrads(loaded, ComponentsToDisableGrads))
    /\ param_updates' = [g \in DOMAIN requires_grad \cup {"backbone", "adapter"} |-> 0]
    /\ UNCHANGED <<grad_in, opt_params, grad_steps>>
    /\ UNCHANGED <<trainVars, valVars, preVars, hookVars, stepVars, artVars>>

\* self.transformer.parameters()
TransformerParameters(rg) == DOMAIN rg \cap {"backbone", "adapter"}

\* list(filter(lambda p: p.requires_grad, self.transformer.parameters()))
TransformerLoraParameters(rg) == {g \in TransformerParameters(rg) : rg[g]}

\* prepare_optimizer: params_to_optimize
OptimizerParams ==
    /\ grad_pc = "trainable"
    /\ grad_pc' = "training"
    /\ opt_params' = TransformerLoraParameters(requires_grad)
    /\ UNCHANGED <<grad_in, requires_grad, param_updates, grad_steps>>
    /\ UNCHANGED <<trainVars, valVars, preVars, hookVars, stepVars, artVars>>

\* accelerator.backward(loss) and optimizer.step(): the parameters of the optimizer
\* that received a gradient are updated
OptimizerStep ==
    /\ grad_pc = "training"
    /\ grad_steps < MaxTrainSteps
    /\ grad_steps' = grad_steps + 1
    /\ param_updates' = [g \in DOMAIN param_updates |->
                            IF g \in opt_params /\ requires_grad[g] THEN param_updates[g] + 1
                            ELSE param_updates[g]]
    /\ UNCHANGED <<grad_in, grad_pc, requires_grad, opt_params>>
    /\ UNCHANGED <<trainVars, valVars, preVars, hookVars, stepVars, artVars>>

\* ---------------------------------------------------------------- idle parts
\* no training loop in progress
TrainIdle ==
    /\ args = [checkpointing_limit |-> 1, checkpointing_steps |-> 1,
               gradient_accumulation_steps |-> 1, len_dataloader |-> 1,
               resume_from_checkpoint |-> <<"none">>,
               validation_every_n_steps |-> 0, validation_every_n_epochs |-> 0,
               push_to_hub |-> FALSE]
    /\ state = [train_steps |-> 1, train_epochs |-> 1, num_update_steps_per_epoch |-> 1]
    /\ pc = [p \in AllProcs |-> "absent"]
    /\ global_step = [p \in AllProcs |-> 0]
    /\ first_epoch = [p \in AllProcs |-> 0]
    /\ initial_global_step = [p \in AllProcs |-> 0]
    /\ resume_from_checkpoint_path = [p \in AllProcs |-> 0]
    /\ load_state_calls = [p \in AllProcs |-> 0]
    /\ epoch = [p \in AllProcs |-> 0]
    /\ step = [p \in AllProcs |-> 0]
    /\ checkpoints = {}
    /\ checkpoints0 = {}
    /\ saved = {}
    /\ final_weights_writers = {}
    /\ output_lora = "absent"
    /\ step_validations = [p \in AllProcs |-> <<>>]
    /\ ckpt_fired = [p \in AllProcs |-> <<>>]
    /\ save_attempt = [p \in AllProcs |-> NoAttempt]
    /\ finalize_log = [p \in AllProcs |-> <<>>]

\* no validation in progress
\* nothing built, deleted, written, gathered or waited for
NoEffects == [pipelines |-> 0, deletes |-> 0, files |-> 0, gathers |-> 0, barriers |-> 0]

ValidateIdle ==
    /\ val_args = [num_validation_samples |-> 0, final_validation |-> FALSE]
    /\ val_pc = [p \in AllProcs |-> "absent"]
    /\ val_i = [p \in AllProcs |-> 0]
    /\ val_generated = [p \in AllProcs |-> <<>>]
    /\ transformer_mode = [p \in AllProcs |-> "train"]
    /\ pipeline = [p \in AllProcs |-> "none"]
    /\ all_artifacts = [p \in AllProcs |-> <<>>]
    /\ tracker_log = <<>>
    /\ val_components = [p \in AllProcs |-> "held"]
    /\ val_lora = [p \in AllProcs |-> "none"]
    /\ val_effects = [p \in AllProcs |-> NoEffects]

ResumeChoices(dir) == {<<"none">>, <<"latest">>} \cup {<<"path", s>> : s \in dir}

\* no precomputation in progress, no cache
PrecomputeIdle ==
    /\ pre_args = [precompute_conditions |-> FALSE, batch_size |-> 1, len_dataset |-> 1]
    /\ pre_pc = [p \in AllProcs |-> "absent"]
    /\ pre_i = [p \in AllProcs |-> 0]
    /\ pre_index = [p \in AllProcs |-> 0]
    /\ components = [p \in AllProcs |-> {}]
    /\ dataloader = [p \in AllProcs |-> "dataset"]
    /\ conditions_dir = <<>>
    /\ latents_dir = <<>>
    /\ dirs_made = FALSE
    /\ cache_checks = [p \in AllProcs |-> 0]
    /\ encoder_loads = [p \in AllProcs |-> 0]
    /\ encodings = [p \in AllProcs |-> 0]
    /\ file_writes = [p \in AllProcs |-> 0]
    /\ write_log = {}
    /\ writing = [p \in AllProcs |-> <<>>]
    /\ invocation = 1

\* no micro-batch computed
NoBatch == [prompts |-> <<>>, latents |-> 0, noise |-> 0, sigma |-> 0,
            random |-> 0]

StepIdle ==
    /\ batch_args = [caption_dropout_technique |-> "empty", caption_dropout_p |-> 0,
                     precompute_conditions |-> FALSE, gradient_accumulation_steps |-> 1,
                     len_dataloader |-> 1, deepspeed |-> FALSE]
    /\ batch_pc = "absent"
    /\ batch_step = 0
    /\ batch = NoBatch
    /\ passed_prompts = <<>>
    /\ text_conditions = [prompt_embeds |-> <<>>, prompt_attention_mask |-> <<>>]
    /\ dropped = {}
    /\ noisy_latents = 0
    /\ target = 0
    /\ grads = 0
    /\ updates = <<>>
    /\ scheduler_steps = 0
    /\ events = <<>>

\* no hook invocation
ArtifactsIdle ==
    /\ art_args = [step |-> 0, samples |-> <<>>, num_videos |-> 1, output_type |-> "video"]
    /\ art_i = [p \in AllProcs |-> 0]
    /\ art_writes = {}

TrainableIdle ==
    /\ grad_in = [precompute_conditions |-> FALSE, optional_encoders |-> {}]
    /\ grad_pc = "absent"
    /\ requires_grad = [g \in {} |-> TRUE]
    /\ opt_params = {}
    /\ param_updates = [g \in {} |-> 0]
    /\ grad_steps = 0

HooksIdle ==
    /\ hook_in = [rank |-> 0, models |-> <<>>, mixed_precision |-> "no", ckpt_lora |-> {}]
    /\ hook_pc = "absent"
    /\ hook_models = <<>>
    /\ hook_weights = <<>>
    /\ ckpt_lora = {}
    /\ lora_writes = 0
    /\ save_result = "none"
    /\ load_result = "none"
    /\ load_target = "none"
    /\ loaded_keys = {}
    /\ hook_warnings = 0
    /\ cast_calls = 0
    /\ dtypes = NoDtypes
    /\ lora = [training |-> InitLora, file |-> EarlierFile({}), fresh |-> InitLora]

\* ---------------------------------------------------------------- training run
Init ==
    /\ accelerator \in [num_processes : 1 .. MaxProcs, deepspeed : BOOLEAN]
    /\ checkpoints0 \in SUBSET (1 .. MaxTrainSteps)
    /\ checkpoints = checkpoints0
    /\ args \in [checkpointing_limit : 1 .. MaxLimit,
                 checkpointing_steps : 1 .. MaxCkptEvery,
                 gradient_accumulation_steps : 1 .. MaxAccum,
                 len_dataloader : {MaxBatches},
                 resume_from_checkpoint : ResumeChoices(checkpoints0),
                 validation_every_n_steps : {0},
                 validation_every_n_epochs : {0},
                 push_to_hub : {FALSE}]
    /\ \E ts \in 1 .. MaxTrainSteps :
          LET e == NumUpdateStepsPerEpoch(args.len_dataloader, args.gradient_accumulation_steps)
          IN  state = [train_steps |-> ts,
                       train_epochs |-> TrainEpochs(ts, e),
                       num_update_steps_per_epoch |-> e]
    /\ pc = [p \in AllProcs |-> IF p < accelerator.num_processes THEN "start" ELSE "absent"]
    /\ global_step = [p \in AllProcs |-> 0]
    /\ first_epoch = [p \in AllProcs |-> 0]
    /\ initial_global_step = [p \in AllProcs |-> 0]
    /\ resume_from_checkpoint_path = [p \in AllProcs |-> 0]
    /\ load_state_calls = [p \in AllProcs |-> 0]
    /\ epoch = [p \in AllProcs |-> 0]
    /\ step = [p \in AllProcs |-> 0]
    /\ saved = {}
    /\ final_weights_writers = {}
    /\ output_lora = "absent"
    /\ step_validations = [p \in AllProcs |-> <<>>]
    /\ ckpt_fired = [p \in AllProcs |-> <<>>]
    /\ save_attempt = [p \in AllProcs |-> NoAttempt]
    /\ finalize_log = [p \in AllProcs |-> <<>>]
    /\ ValidateIdle
    /\ PrecomputeIdle
    /\ HooksIdle
    /\ StepIdle
    /\ ArtifactsIdle
    /\ TrainableIdle

Next ==
    \/ \E p \in Procs : TrainStart(p)
    \/ \E p \in Procs : MicroBatch(p)
    \/ AllReduce
    \/ \E p \in Procs : StepUpdate(p)
    \/ \E p \in Procs : SaveState(p)
    \/ \E p \in Procs : EpochEnd(p)
    \/ FinalBarrier
    \/ \E p \in Procs : Finalize(p)
    \/ \E p \in Procs : ValidateEnter(p)
    \/ \E p \in Procs : FinalizeEnd(p)

Spec == Init /\ [][Next]_vars

\* ------------------------------------------- training run with validation
\* a cold start into an empty output directory, with any validation schedule and any
\* number of validation prompts; the output directory may hold the adapter weights
\* of an earlier run
InitRun ==
    /\ accelerator \in [num_processes : 1 .. MaxProcs, deepspeed : BOOLEAN]
    /\ checkpoints0 = {}
    /\ checkpoints = checkpoints0
    /\ args \in [checkpointing_limit : {MaxLimit},
                 checkpointing_steps : 1 .. MaxCkptEvery,
                 gradient_accumulation_steps : 1 .. MaxAccum,
                 len_dataloader : {MaxBatches},
                 resume_from_checkpoint : {<<"none">>},
                 validation_every_n_steps : 0 .. MaxValEvery,
                 validation_every_n_epochs : 0 .. MaxValEpochs,
                 push_to_hub : BOOLEAN]
    /\ \E ts \in 1 .. MaxTrainSteps :
          LET e == NumUpdateStepsPerEpoch(args.len_dataloader, args.gradient_accumulation_steps)
          IN  state = [train_steps |-> ts,
                       train_epochs |-> TrainEpochs(ts, e),
                       num_update_steps_per_epoch |-> e]
    /\ pc = [p \in AllProcs |-> IF p < accelerator.num_processes THEN "start" ELSE "absent"]
    /\ global_step = [p \in AllProcs |-> 0]
    /\ first_epoch = [p \in AllProcs |-> 0]
    /\ initial_global_step = [p \in AllProcs |-> 0]
    /\ resume_from_checkpoint_path = [p \in AllProcs |-> 0]
    /\ load_state_calls = [p \in AllProcs |-> 0]
    /\ epoch = [p \in AllProcs |-> 0]
    /\ step = [p \in AllProcs |-> 0]
    /\ saved = {}
    /\ final_weights_writers = {}
    /\ output_lora \in {"absent", "stale"}
    /\ step_validations = [p \in AllProcs |-> <<>>]
    /\ ckpt_fired = [p \in AllProcs |-> <<>>]
    /\ save_attempt = [p \in AllProcs |-> NoAttempt]
    /\ finalize_log = [p \in AllProcs |-> <<>>]
    /\ val_args \in [num_validation_samples : 0 .. MaxRunPrompts, final_validation : {FALSE}]
    /\ val_pc = [p \in AllProcs |-> "absent"]
    /\ val_i = [p \in AllProcs |-> 0]
    /\ val_generated = [p \in AllProcs |-> <<>>]
    /\ transformer_mode = [p \in AllProcs |-> "train"]
    /\ pipeline = [p \in AllProcs |-> "none"]
    /\ all_artifacts = [p \in AllProcs |-> <<>>]
    /\ tracker_log = <<>>
    /\ val_components = [p \in AllProcs |-> "held"]
    /\ val_lora = [p \in AllProcs |-> "none"]
    /\ val_effects = [p \in AllProcs |-> NoEffects]
    /\ PrecomputeIdle
    /\ HooksIdle
    /\ StepIdle
    /\ ArtifactsIdle
    /\ TrainableIdle

NextRun ==
    \/ Next
    \/ \E p \in Procs : ValidateStepReturn(p)
    \/ \E p \in Procs : ValidateEpochReturn(p)
    \/ \E p \in Procs : ValidateIter(p)
    \/ ValidateGather
    \/ \E p \in Procs : ValidateLog(p)
    \/ ValidateBarrier
    \/ \E p \in Procs : ValidateReturn(p)

SpecRun == InitRun /\ [][NextRun]_vars

\* every process is scheduled: a step that can be taken is eventually taken
FairSpecRun == SpecRun /\ WF_vars(NextRun)

\* ------------------------------------------------------------- validation run
\* every process calls validate(step, final_validation) once
InitValidate ==
    /\ accelerator \in [num_processes : 1 .. MaxProcs, deepspeed : BOOLEAN]
    /\ TrainIdle
    /\ val_args \in [num_validation_samples : 0 .. MaxPrompts, final_validation : BOOLEAN]
    /\ val_pc = [p \in AllProcs |-> IF p < accelerator.num_processes THEN "enter" ELSE "absent"]
    /\ val_i = [p \in AllProcs |-> 0]
    /\ val_generated = [p \in AllProcs |-> <<>>]
    /\ transformer_mode = [p \in AllProcs |-> "train"]
    /\ pipeline = [p \in AllProcs |-> "none"]
    /\ all_artifacts = [p \in AllProcs |-> <<>>]
    /\ tracker_log = <<>>
    /\ val_components = [p \in AllProcs |-> "held"]
    /\ val_lora = [p \in AllProcs |-> "none"]
    /\ val_effects = [p \in AllProcs |-> NoEffects]
    /\ PrecomputeIdle
    /\ HooksIdle
    /\ StepIdle
    /\ ArtifactsIdle
    /\ TrainableIdle

NextValidate ==
    \/ \E p \in Procs : ValidateEnter(p)
    \/ \E p \in Procs : ValidateIter(p)
    \/ ValidateGather
    \/ \E p \in Procs : ValidateLog(p)
    \/ ValidateBarrier
    \/ \E p \in Procs : ValidateReturn(p)

SpecValidate == InitValidate /\ [][NextValidate]_vars

\* ------------------------------------------------ training with failing saves
\* the training run of Spec in which any save_state call may raise
NextSaveFail ==
    \/ Next
    \/ \E p \in Procs : SaveStateFails(p)

SpecSaveFail == Init /\ [][NextSaveFail]_vars

\* --------------------------------------------------------- precomputation run
\* every process calls prepare_precomputations after prepare_dataset and
\* prepare_models, against a data root without a cache
InitPrecompute ==
    /\ accelerator \in [num_processes : 1 .. MaxProcs, deepspeed : BOOLEAN]
    /\ TrainIdle
    /\ ValidateIdle
    /\ pre_args \in [precompute_conditions : BOOLEAN, batch_size : 1 .. MaxBatchSize,
                     len_dataset : 1 .. MaxSamples]
    /\ pre_pc = [p \in AllProcs |-> IF p < accelerator.num_processes THEN "enter" ELSE "absent"]
    /\ pre_i = [p \in AllProcs |-> 0]
    /\ pre_index = [p \in AllProcs |-> 0]
    /\ components = [p \in AllProcs |-> PreparedComponents]
    /\ dataloader = [p \in AllProcs |-> "dataset"]
    /\ conditions_dir = <<>>
    /\ latents_dir = <<>>
    /\ dirs_made = FALSE
    /\ cache_checks = [p \in AllProcs |-> 0]
    /\ encoder_loads = [p \in AllProcs |-> 0]
    /\ encodings = [p \in AllProcs |-> 0]
    /\ file_writes = [p \in AllProcs |-> 0]
    /\ write_log = {}
    /\ writing = [p \in AllProcs |-> <<>>]
    /\ invocation = 1
    /\ HooksIdle
    /\ StepIdle
    /\ ArtifactsIdle
    /\ TrainableIdle

NextPrecompute ==
    \/ \E p \in Procs : PrecomputeEnter(p)
    \/ \E p \in Procs : PrecomputeCheck(p)
    \/ \E p \in Procs : PrecomputeLoadConditions(p)
    \/ \E p \in Procs : PrecomputeConditionsIter(p)
    \/ \E p \in Procs : PrecomputeLoadLatents(p)
    \/ \E p \in Procs : PrecomputeLatentsIter(p)
    \/ \E p \in Procs : PrecomputeSaveReturns(p)
    \/ PrecomputeBarrier
    \/ \E p \in Procs : PrecomputeSwitch(p)
    \/ PrecomputeRerun

SpecPrecompute == InitPrecompute /\ [][NextPrecompute]_vars

\* ------------------------------------- precomputation over an earlier run's files
\* the cache files left by an earlier precomputation of the same dataset with P0
\* processes that was stopped after process r had made saves[r] torch.save calls
\* (its condition artifacts first, then its latent artifacts); mkdir(exist_ok=True)
\* keeps whatever the directories hold
EarlierShard(r, P0, N) == {i \in 0 .. N - 1 : i % P0 = r}

EarlierConditions(P0, N, saves) ==
    LET done == {i \in 0 .. N - 1 : i \div P0 < saves[i % P0]}
        names == {ConditionsFilename(i % P0, i, i \div P0) : i \in done}
    IN  [n \in names |-> n[2]]

EarlierLatents(P0, N, saves) ==
    LET done == {i \in 0 .. N - 1 :
                    i \div P0 < saves[i % P0] - Cardinality(EarlierShard(i % P0, P0, N))}
        names == {LatentsFilename(i % P0, i, i \div P0) : i \in done}
    IN  [n \in names |-> n[3] * P0 + n[2]]

InitStale ==
    /\ accelerator \in [num_processes : 1 .. MaxProcs, deepspeed : BOOLEAN]
    /\ TrainIdle
    /\ ValidateIdle
    /\ pre_args \in [precompute_conditions : {TRUE}, batch_size : {1},
                     len_dataset : 1 .. MaxSamples]
    /\ pre_pc = [p \in AllProcs |-> IF p < accelerator.num_processes THEN "enter" ELSE "absent"]
    /\ pre_i = [p \in AllProcs |-> 0]
    /\ pre_index = [p \in AllProcs |-> 0]
    /\ components = [p \in AllProcs |-> PreparedComponents]
    /\ dataloader = [p \in AllProcs |-> "dataset"]
    /\ \E P0 \in 1 .. MaxProcs :
         \E saves \in [0 .. P0 - 1 -> 0 .. 2 * MaxSamples] :
            /\ \A r \in 0 .. P0 - 1 :
                   saves[r] <= 2 * Cardinality(EarlierShard(r, P0, pre_args.len_dataset))
            /\ conditions_dir = EarlierConditions(P0, pre_args.len_dataset, saves)
            /\ latents_dir = EarlierLatents(P0, pre_args.len_dataset, saves)
    /\ ShouldPerformPrecomputation(conditions_dir, latents_dir, pre_args.len_dataset)
    /\ dirs_made = (conditions_dir # <<>>)
    /\ cache_checks = [p \in AllProcs |-> 0]
    /\ encoder_loads = [p \in AllProcs |-> 0]
    /\ encodings = [p \in AllProcs |-> 0]
    /\ file_writes = [p \in AllProcs |-> 0]
    /\ write_log = {}
    /\ writing = [p \in AllProcs |-> <<>>]
    /\ invocation = 1
    /\ HooksIdle
    /\ StepIdle
    /\ ArtifactsIdle
    /\ TrainableIdle

SpecStale == InitStale /\ [][NextPrecompute]_vars

\* ------------------------------------------------------------ hook invocations
\* the lists of at most n models
ModelLists(n) == UNION {[1 .. k -> {"transformer", "other"}] : k \in 0 .. n}

\* the keys an adapter file found in a checkpoint directory may hold
FileKeys == {<<"transformer">> \o k : k \in AdapterKeys}
            \cup {<<"transformer", "to_q", "lora_C">>, <<"text_encoder", "to_q", "lora_A">>}

\* one process runs the save hook, the load hook, or both in this order, on a list
\* of models; accelerate passes one weights entry per model, none under DeepSpeed
InitHooks ==
    /\ accelerator \in [num_processes : 1 .. MaxProcs, deepspeed : BOOLEAN]
    /\ TrainIdle
    /\ ValidateIdle
    /\ PrecomputeIdle
    /\ StepIdle
    /\ ArtifactsIdle
    /\ TrainableIdle
    /\ hook_in \in [rank : 0 .. accelerator.num_processes - 1,
                    models : ModelLists(MaxModels),
                    mixed_precision : {"no", "fp16", "bf16"},
                    ckpt_lora : SUBSET FileKeys]
    /\ hook_pc = "ready"
    /\ hook_models = hook_in.models
    /\ hook_weights = IF accelerator.deepspeed THEN <<>> ELSE hook_in.models
    /\ ckpt_lora = hook_in.ckpt_lora
    /\ lora_writes = 0
    /\ save_result = "none"
    /\ load_result = "none"
    /\ load_target = "none"
    /\ loaded_keys = {}
    /\ hook_warnings = 0
    /\ cast_calls = 0
    /\ dtypes = [transformer |-> PreparedDtypes(hook_in.mixed_precision),
                 optimizer |-> "none", loaded |-> "none"]
    /\ lora = [training |-> InitLora, file |-> EarlierFile(hook_in.ckpt_lora), fresh |-> InitLora]

NextHooks ==
    \/ PrepareOptimizer
    \/ TrainAdapter
    \/ ResumeRun
    \/ \E p \in Procs : SaveModelHook(p)
    \/ \E p \in Procs : LoadModelHook(p)

SpecHooks == InitHooks /\ [][NextHooks]_vars

\* ------------------------------------------------- the counts of a training run
\* prepare_optimizer and prepare_for_training for any configured train_steps (0: not
\* configured), train_epochs, accumulation window, dataloader and process count
InitPrepare ==
    /\ accelerator \in [num_processes : 1 .. MaxProcs, deepspeed : BOOLEAN]
    /\ args \in [train_steps : 0 .. MaxTrainSteps,
                  train_epochs : 1 .. MaxEpochs,
                  gradient_accumulation_steps : 1 .. MaxAccum,
                  len_dataloader : 1 .. MaxBatches * MaxProcs]
    /\ state = [train_steps |-> 0, train_epochs |-> 0, overwrote_max_train_steps |-> FALSE,
                num_update_steps_per_epoch |-> 0]
    /\ pc = [p \in AllProcs |-> IF p < accelerator.num_processes THEN "prepare_optimizer"
                                 ELSE "absent"]
    /\ global_step = [p \in AllProcs |-> 0]
    /\ first_epoch = [p \in AllProcs |-> 0]
    /\ initial_global_step = [p \in AllProcs |-> 0]
    /\ resume_from_checkpoint_path = [p \in AllProcs |-> 0]
    /\ load_state_calls = [p \in AllProcs |-> 0]
    /\ epoch = [p \in AllProcs |-> 0]
    /\ step = [p \in AllProcs |-> 0]
    /\ checkpoints = {}
    /\ checkpoints0 = {}
    /\ saved = {}
    /\ final_weights_writers = {}
    /\ output_lora = "absent"
    /\ step_validations = [p \in AllProcs |-> <<>>]
    /\ ckpt_fired = [p \in AllProcs |-> <<>>]
    /\ save_attempt = [p \in AllProcs |-> NoAttempt]
    /\ finalize_log = [p \in AllProcs |-> <<>>]
    /\ ValidateIdle
    /\ PrecomputeIdle
    /\ HooksIdle
    /\ StepIdle
    /\ ArtifactsIdle
    /\ TrainableIdle

NextPrepare ==
    \/ PrepareOptimizerSteps
    \/ PrepareForTraining

SpecPrepare == InitPrepare /\ [][NextPrepare]_vars

\* ------------------------------------------ the parameters that are trained
\* the models are loaded (live encoding) or only the transformer is to be loaded
\* (precomputed conditions); then prepare_trainable_parameters, prepare_optimizer and
\* the optimizer steps of the run
InitTrainable ==
    /\ accelerator \in [num_processes : 1 .. MaxProcs, deepspeed : BOOLEAN]
    /\ TrainIdle
    /\ ValidateIdle
    /\ PrecomputeIdle
    /\ HooksIdle
    /\ StepIdle
    /\ ArtifactsIdle
    /\ grad_in \in [precompute_conditions : BOOLEAN,
                     optional_encoders : SUBSET {"text_encoder_2", "text_encoder_3"}]
    /\ grad_pc = "models"
    /\ requires_grad = [g \in LoadedGroups(grad_in) |-> TRUE]
    /\ opt_params = {}
    /\ param_updates = [g \in LoadedGroups(grad_in) |-> 0]
    /\ grad_steps = 0

NextTrainable ==
    \/ PrepareTrainableParameters
    \/ OptimizerParams
    \/ OptimizerStep

SpecTrainable == InitTrainable /\ [][NextTrainable]_vars

\* ------------------------------------------- the artifacts of a validation run
\* a prompt longer than the 25 characters kept of it, ending in c
LongPrompt(c) == [k \in 1 .. 26 |-> IF k = 26 THEN c ELSE "a"]

\* the validation prompts a run may be configured with
PromptTexts == {<<"a", " ", "b">>, <<"a", "/", "b">>, LongPrompt("x"), LongPrompt("y")}

\* validation_prompts with validation_images and validation_videos, index by index
ValidationSamples ==
    UNION {[1 .. k -> [prompt : PromptTexts, image : BOOLEAN, video : BOOLEAN]] :
              k \in 1 .. MaxArtPrompts}

\* every process runs the prompt loop of one validate call of the same step
InitArtifacts ==
    /\ accelerator \in [num_processes : 1 .. MaxProcs, deepspeed : {FALSE}]
    /\ TrainIdle
    /\ ValidateIdle
    /\ PrecomputeIdle
    /\ HooksIdle
    /\ StepIdle
    /\ TrainableIdle
    /\ art_args \in [step : {1}, samples : ValidationSamples, num_videos : 1 .. MaxVideos,
                      output_type : {"image", "video"}]
    /\ art_i = [p \in AllProcs |-> 0]
    /\ art_writes = {}

NextArtifacts == \E p \in Procs : SaveArtifacts(p)

SpecArtifacts == InitArtifacts /\ [][NextArtifacts]_vars

\* ------------------------------------------------- the micro-batches of an epoch
\* one process computes the micro-batches of one epoch, for any caption dropout
\* setting, live or cached conditions, any accumulation window, with or without DeepSpeed
InitStep ==
    /\ accelerator \in [num_processes : {1}, deepspeed : BOOLEAN]
    /\ TrainIdle
    /\ ValidateIdle
    /\ PrecomputeIdle
    /\ HooksIdle
    /\ ArtifactsIdle
    /\ TrainableIdle
    /\ batch_args \in [caption_dropout_technique : {"empty", "zero"},
                       caption_dropout_p : 0 .. Den,
                       precompute_conditions : BOOLEAN,
                       gradient_accumulation_steps : 1 .. MaxAccum,
                       len_dataloader : {1, MaxBatches + 1},
                       deepspeed : {accelerator.deepspeed}]
    /\ batch_pc = "batch"
    /\ batch_step = 0
    /\ batch = NoBatch
    /\ passed_prompts = <<>>
    /\ text_conditions = [prompt_embeds |-> <<>>, prompt_attention_mask |-> <<>>]
    /\ dropped = {}
    /\ noisy_latents = 0
    /\ target = 0
    /\ grads = 0
    /\ updates = <<>>
    /\ scheduler_steps = 0
    /\ events = <<>>

NextStep == TrainingStep

SpecStep == InitStep /\ [][NextStep]_vars

\* ------------------------------------------------------------------ claims
\* every process has left the epoch loop
TrainingEnded == \A p \in Procs : pc[p] \in {"finalize", "final_save", "final_validate", "done"}

\* the checkpoint step a run resumes from, from the configuration alone (0: cold start)
ResumeStep ==
    IF args.resume_from_checkpoint = <<"none">> THEN 0
    ELSE IF args.resume_from_checkpoint = <<"latest">>
         THEN (IF checkpoints0 = {} THEN 0 ELSE Max(checkpoints0))
         ELSE args.resume_from_checkpoint[2]

\* C1 as stated: in every reachable state of a run, whatever checkpoints the output
\* directory held at start, at most checkpointing_limit checkpoint directories exist.
C1_AtMostLimitAlways == Cardinality(checkpoints) <= args.checkpointing_limit

\* C1 amended: the number of checkpoint directories exceeds checkpointing_limit only
\* while the directory is still exactly as found at start (nothing pruned or saved yet);
\* from the first pruning or save on it is at most checkpointing_limit.
C1_AtMostLimitOnceSaving ==
    \/ Cardinality(checkpoints) <= args.checkpointing_limit
    \/ (checkpoints = checkpoints0 /\ saved = {})

\* C1 witness: a run that started with more checkpoints than the limit has saved
C1_Witness ==
    /\ Cardinality(checkpoints0) > args.checkpointing_limit
    /\ saved # {}
    /\ Cardinality(checkpoints) = args.checkpointing_limit

\* C2 as stated: once more checkpoints than the limit L have been saved at increasing
\* steps (into a directory that held none), exactly L directories exist and they are
\* the L highest saved steps.
C2_ExactlyLHighestRemain ==
    (/\ checkpoints0 = {}
     /\ Cardinality(saved) > args.checkpointing_limit
     /\ \A p \in Procs : pc[p] # "save")
    => checkpoints = Highest(saved, args.checkpointing_limit)

\* C3: a cold-start single-process run with checkpointing_limit 1 and train_steps a
\* multiple of checkpointing_steps ends with exactly one checkpoint, checkpoint-<train_steps>.
C3_OneCheckpointAtEnd ==
    (/\ accelerator.num_processes = 1
     /\ args.resume_from_checkpoint = <<"none">>
     /\ args.checkpointing_limit = 1
     /\ state.train_steps % args.checkpointing_steps = 0
     /\ TrainingEnded)
    => checkpoints = {state.train_steps}

\* C3 witness: such a run has ended after pruning an earlier checkpoint of its own
C3_Witness ==
    /\ accelerator.num_processes = 1
    /\ args.resume_from_checkpoint = <<"none">>
    /\ args.checkpointing_limit = 1
    /\ state.train_steps % args.checkpointing_steps = 0
    /\ TrainingEnded
    /\ Cardinality(saved) >= 2
    /\ checkpoints = {state.train_steps}

\* the state in which process p enters the epoch loop
AtLoopStart(p) ==
    /\ pc[p] \in {"batch", "finalize"}
    /\ epoch[p] = first_epoch[p]
    /\ step[p] = 0
    /\ global_step[p] = initial_global_step[p]

\* C4: a run resumed from the checkpoint of step S starts the loop with global_step = S,
\* initial_step = S, first_epoch = S // E and one load_state call; with no checkpoint
\* requested or found it starts from (no path, 0, 0, 0) and load_state is never called.
C4_ResumePoint ==
    \A p \in Procs : pc[p] # "start" =>
        /\ resume_from_checkpoint_path[p] = ResumeStep
        /\ initial_global_step[p] = ResumeStep
        /\ first_epoch[p] = ResumeStep \div state.num_update_steps_per_epoch
        /\ load_state_calls[p] = (IF ResumeStep > 0 THEN 1 ELSE 0)
        /\ global_step[p] >= ResumeStep
        /\ (pc[p] \in {"batch", "finalize"} /\ epoch[p] = first_epoch[p] /\ step[p] = 0
              => global_step[p] = ResumeStep)

\* C4 witness: a process has entered the loop mid-epoch range from a checkpoint
C4_Witness ==
    \E p \in Procs :
        /\ AtLoopStart(p)
        /\ ResumeStep > 0
        /\ first_epoch[p] > 0
        /\ global_step[p] = ResumeStep
        /\ load_state_calls[p] = 1

\* C5 as stated: for a cold start or a resume from step S <= train_steps, global_step
\* never exceeds train_steps and equals train_steps when Finalize begins.
C5_StopsAtTrainSteps ==
    ResumeStep <= state.train_steps =>
        \A p \in Procs :
            /\ global_step[p] <= state.train_steps
            /\ (pc[p] \in {"finalize", "final_save", "final_validate", "done"} => global_step[p] = state.train_steps)

\* the prompt indices assigned to rank r by the round-robin rule
AssignedTo(r) == {i \in 0 .. val_args.num_validation_samples - 1 : i % accelerator.num_processes = r}

\* process p has left the prompt loop of validate()
PromptLoopDone(p) == val_pc[p] \in {"gather", "log", "barrier", "after_barrier"}
                     \/ (val_pc[p] = "done" /\ val_args.num_validation_samples > 0)

\* C6: process r generates exactly the prompts i with i mod P = r, each once; over all
\* processes the generated sets cover 0..V-1 and are pairwise disjoint.
C6_RoundRobinCoverage ==
    /\ \A p \in Procs :
          /\ Range(val_generated[p]) \subseteq AssignedTo(p)
          /\ Cardinality(Range(val_generated[p])) = Len(val_generated[p])
          /\ PromptLoopDone(p) => Range(val_generated[p]) = AssignedTo(p)
    /\ (\A p \in Procs : PromptLoopDone(p)) =>
          /\ UNION {Range(val_generated[p]) : p \in Procs} = 0 .. val_args.num_validation_samples - 1
          /\ \A p, q \in Procs : p # q => Range(val_generated[p]) \cap Range(val_generated[q]) = {}

\* C6 witness: two processes have finished a validation run of three prompts
C6_Witness ==
    /\ accelerator.num_processes = 2
    /\ val_args.num_validation_samples = 3
    /\ \A p \in Procs : val_pc[p] = "done"
    /\ val_generated[0] = <<0, 2>>
    /\ val_generated[1] = <<1>>

\* C7: in the run that follows a completed first run (all processes, cache empty at
\* its start), prepare_precomputations loads no encoder, encodes nothing and writes
\* no file; it only switches the dataloader to the cache-backed reader.
C7_SecondInvocationNoWork ==
    invocation = 2 =>
        \A p \in Procs :
            /\ encoder_loads[p] = 0
            /\ encodings[p] = 0
            /\ file_writes[p] = 0
            /\ components[p] = PreparedComponents
            /\ pre_pc[p] \in {"enter", "check", "done"}
            /\ (pre_pc[p] = "done" /\ pre_args.precompute_conditions)
                  => (dataloader[p] = "precomputed" /\ cache_checks[p] = 1)

\* C7 witness: the second run has returned on two processes over a cache of three samples
C7_Witness ==
    /\ invocation = 2
    /\ pre_args.precompute_conditions
    /\ accelerator.num_processes = 2
    /\ pre_args.len_dataset = 3
    /\ Cardinality(DOMAIN conditions_dir) = 3
    /\ Cardinality(DOMAIN latents_dir) = 3
    /\ \A p \in Procs : pre_pc[p] = "done" /\ dataloader[p] = "precomputed" /\ file_writes[p] = 0

\* C8: with precomputation enabled and batch_size != 1 the call raises before the cache
\* check, before any encoder load and before any write, and leaves the dataloader and
\* the component references as they were.
C8_BatchSizeErrorIsEager ==
    /\ \A p \in Procs :
          (pre_args.precompute_conditions /\ pre_args.batch_size # 1 /\ pre_pc[p] # "enter")
              => pre_pc[p] = "error"
    /\ \A p \in Procs :
          pre_pc[p] = "error" =>
              /\ pre_args.batch_size # 1
              /\ cache_checks[p] = 0
              /\ encoder_loads[p] = 0
              /\ encodings[p] = 0
              /\ file_writes[p] = 0
              /\ dataloader[p] = "dataset"
              /\ components[p] = PreparedComponents
              /\ ~ dirs_made
              /\ conditions_dir = <<>>
              /\ latents_dir = <<>>

\* C8 witness: the call has raised on every process
C8_Witness ==
    /\ accelerator.num_processes = 2
    /\ pre_args.batch_size = 2
    /\ \A p \in Procs : pre_pc[p] = "error"

\* some model of the list is not of the transformer's type
HasUnexpectedModel(models) == \E k \in 1 .. Len(models) : models[k] # "transformer"

\* C9 as stated: whenever the save hook has run on a list holding a model that is not
\* of the transformer's type it has raised 'unexpected save model' and written no
\* adapter weights; on a list holding exactly the transformer it has written only the
\* adapter state and left no entry in the weights list.
C9_SaveHookAnyProcess ==
    save_result # "none" =>
        /\ HasUnexpectedModel(hook_in.models) =>
              (save_result = "unexpected_save_model" /\ lora_writes = 0 /\ ckpt_lora = hook_in.ckpt_lora)
        /\ hook_in.models = <<"transformer">> =>
              (/\ save_result = "returned"
               /\ lora_writes = 1
               /\ ckpt_lora = {<<"transformer">> \o k : k \in AdapterKeys}
               /\ hook_weights = <<>>)

\* C9 amended: the same, for the hook run on the coordinating process; on any other
\* process (where it runs only under DeepSpeed) the hook returns without raising,
\* writes nothing and leaves the weights list as it was.
C9_SaveHookMainProcess ==
    save_result # "none" =>
        IF IsMainProcess(hook_in.rank)
        THEN /\ HasUnexpectedModel(hook_in.models) =>
                   (save_result = "unexpected_save_model" /\ lora_writes = 0
                    /\ ckpt_lora = hook_in.ckpt_lora)
             /\ hook_in.models = <<"transformer">> =>
                   (/\ save_result = "returned"
                    /\ lora_writes = 1
                    /\ ckpt_lora = {<<"transformer">> \o k : k \in AdapterKeys}
                    /\ ckpt_lora \cap {<<"transformer">> \o k : k \in BackboneKeys} = {}
                    /\ hook_weights = <<>>)
        ELSE /\ accelerator.deepspeed
             /\ save_result = "returned"
             /\ lora_writes = 0
             /\ ckpt_lora = hook_in.ckpt_lora
             /\ hook_weights = <<>>

\* C9 witness: the hook has raised on the main process after accepting a first model
C9_Witness ==
    /\ IsMainProcess(hook_in.rank)
    /\ hook_in.models = <<"transformer", "other">>
    /\ save_result = "unexpected_save_model"
    /\ lora_writes = 0

\* the unexpected keys the load hook is told about for the adapter file it reads
ReportedUnexpectedKeys == UnexpectedKeys(TransformerStateDict(hook_in.ckpt_lora))

\* C10: when loading the adapter state reports unexpected keys, the load hook logs one
\* warning and returns normally with the known adapter keys loaded.
C10_UnexpectedKeysOnlyWarn ==
    (/\ hook_pc = "loaded"
     /\ save_result = "none"
     /\ ReportedUnexpectedKeys # {}
     /\ load_result \notin {"unexpected_save_model", "unbound_transformer"})
    => /\ load_result = "returned"
       /\ hook_warnings = 1
       /\ loaded_keys = TransformerStateDict(hook_in.ckpt_lora) \cap AdapterKeys
       /\ load_target # "none"

\* C10 witness: a load with an unexpected key has returned with the known keys loaded
C10_Witness ==
    /\ hook_pc = "loaded"
    /\ save_result = "none"
    /\ ReportedUnexpectedKeys = {<<"to_q", "lora_C">>}
    /\ load_result = "returned"
    /\ hook_warnings = 1
    /\ loaded_keys = AdapterKeys

\* every process has reached the end of train()
RunCompleted == \A p \in Procs : pc[p] = "done"

\* validate() has had no effect on any process
ValidateWasNoOp ==
    /\ \A p \in Procs :
          /\ val_effects[p] = NoEffects
          /\ pipeline[p] = "none"
          /\ transformer_mode[p] = "train"
          /\ val_lora[p] = "none"
          /\ all_artifacts[p] = <<>>
          /\ val_pc[p] \in {"absent", "enter", "done"}
          /\ val_components[p] = "released" => pc[p] = "done"
    /\ tracker_log = <<>>

\* C11: with zero validation prompts every validate call, final or not, builds no
\* pipeline, deletes no components, writes no file, gathers nothing, enters no barrier
\* and leaves the train/eval mode alone, and the training run reaches its end.
C11_ZeroPromptsNoOp ==
    /\ [](val_args.num_validation_samples = 0 => ValidateWasNoOp)
    /\ (val_args.num_validation_samples = 0 ~> RunCompleted)

\* C11 witness: a two-process run without prompts has ended after step-triggered,
\* epoch-triggered and final validate calls
C11_Witness ==
    /\ val_args.num_validation_samples = 0
    /\ accelerator.num_processes = 2
    /\ args.validation_every_n_epochs = 1
    /\ \A p \in Procs : Len(step_validations[p]) >= 2
    /\ RunCompleted
    /\ ValidateWasNoOp

\* C12 as stated: on every process the fresh pipeline of the final validation has
\* loaded exactly the final adapter weights the main process wrote (never the file
\* as it was before that write), with the training components released beforehand.
C12_FinalValidationLoadsFinalWeights ==
    \A p \in Procs :
        val_lora[p] # "none" =>
            /\ val_lora[p] = "final"
            /\ final_weights_writers = {0}
            /\ val_components[p] = "released"

\* the steps of Finalize on process p, in the order C13 states
FinalizeOrder(p) ==
    <<"barrier">>
    \o (IF p = 0 THEN <<"save_weights">> ELSE <<>>)
    \o <<"final_validation">>
    \o (IF p = 0 /\ args.push_to_hub THEN <<"upload">> ELSE <<>>)
    \o <<"release", "end_training">>

\* C13: on every process the steps of Finalize taken so far are a prefix of: barrier,
\* final weights (main process only), final validation (every process, whatever the
\* validation schedule), upload (main process and push_to_hub only), release, end of
\* tracking; no process is past the barrier before all have reached it, and a process
\* that has ended has taken each step once.
C13_FinalizeOrder ==
    /\ \A p \in Procs :
          /\ Len(finalize_log[p]) <= Len(FinalizeOrder(p))
          /\ finalize_log[p] = SubSeq(FinalizeOrder(p), 1, Len(finalize_log[p]))
          /\ pc[p] = "done" <=> finalize_log[p] = FinalizeOrder(p)
          /\ pc[p] = "final_validate" =>
                 (finalize_log[p][Len(finalize_log[p])] = "final_validation" /\ val_pc[p] # "absent")
    /\ \A p, q \in Procs : finalize_log[p] # <<>> => finalize_log[q] # <<>>
    /\ (\E p \in Procs : finalize_log[p] # <<>>) =>
           \A q \in Procs : pc[q] \in {"final_save", "final_validate", "done"}
    /\ final_weights_writers \subseteq {0}

\* C13 witness: two processes without any validation schedule have gone through
\* Finalize with a final validation that ran the pipeline and with an upload
C13_Witness ==
    /\ accelerator.num_processes = 2
    /\ args.validation_every_n_steps = 0
    /\ args.validation_every_n_epochs = 0
    /\ args.push_to_hub
    /\ val_args.num_validation_samples > 0
    /\ RunCompleted
    /\ \A p \in Procs : val_effects[p].pipelines = 1
    /\ finalize_log[0] = <<"barrier", "save_weights", "final_validation", "upload", "release", "end_training">>
    /\ finalize_log[1] = <<"barrier", "final_validation", "release", "end_training">>

\* a micro-batch has been computed
BatchComputed == events # <<>>

\* C14: with live encoding and caption_dropout_p = 1, technique 'empty' passes only
\* empty prompts to prepare_conditions and technique 'zero' gives forward_pass all-zero
\* prompt embeddings and an all-false attention mask; with caption_dropout_p = 0
\* prompts and conditions are those of the batch; never are both techniques applied.
C14_CaptionDropout ==
    BatchComputed =>
        /\ (~ batch_args.precompute_conditions /\ batch_args.caption_dropout_p = Den) =>
               /\ batch_args.caption_dropout_technique = "empty" =>
                      /\ Len(passed_prompts) = Len(batch.prompts)
                      /\ \A k \in 1 .. Len(passed_prompts) : passed_prompts[k] = ""
               /\ batch_args.caption_dropout_technique = "zero" =>
                      /\ Len(text_conditions.prompt_embeds) = Len(batch.prompts)
                      /\ \A k \in 1 .. Len(batch.prompts) :
                             /\ text_conditions.prompt_embeds[k] = 0
                             /\ text_conditions.prompt_attention_mask[k] = FALSE
        /\ batch_args.caption_dropout_p = 0 =>
               /\ dropped = {}
               /\ ~ batch_args.precompute_conditions => passed_prompts = batch.prompts
               /\ text_conditions = PrepareConditions(batch.prompts)
        /\ Cardinality(dropped) <= 1

\* C14 witness: technique 'zero' with probability 1 has zeroed the conditions of a
\* live-encoded batch of two prompts
C14_Witness ==
    /\ BatchComputed
    /\ ~ batch_args.precompute_conditions
    /\ batch_args.caption_dropout_technique = "zero"
    /\ batch_args.caption_dropout_p = Den
    /\ batch.prompts = <<"a cat", "">>
    /\ passed_prompts = batch.prompts
    /\ text_conditions = [prompt_embeds |-> <<0, 0>>, prompt_attention_mask |-> <<FALSE, FALSE>>]

\* C15: the noisy input is the clean latent for sigma = 0, the noise for sigma = 1 and
\* the arithmetic mean of the two for sigma = 1/2 (noisy_latents is the numerator over
\* Den); the target is noise - clean latent.
C15_FlowMatchingInterpolation ==
    BatchComputed =>
        /\ batch.sigma = 0 => noisy_latents = Den * batch.latents
        /\ batch.sigma = Den => noisy_latents = Den * batch.noise
        /\ 2 * batch.sigma = Den => 2 * noisy_latents = Den * (batch.latents + batch.noise)
        /\ target = batch.noise - batch.latents

\* C15 witness: sigma = 1/2 between latent 1 and noise -1 gives 0, with target -2
C15_Witness ==
    /\ BatchComputed
    /\ 2 * batch.sigma = Den
    /\ batch.latents = 1
    /\ batch.noise = -1
    /\ noisy_latents = 0
    /\ target = -2

\* the triggers recorded in q fired only on window-closing micro-batches, never at
\* global_step 0 and at most once per value of global_step
OnlyAtBoundaries(q) ==
    /\ \A k \in 1 .. Len(q) : q[k].boundary /\ q[k].global_step > 0
    /\ \A j, k \in 1 .. Len(q) : j # k => q[j].global_step # q[k].global_step

\* C16 as stated: on every process the checkpoint trigger and the step-based
\* validation trigger fire only on micro-batches that complete an accumulation window,
\* never while global_step is 0, and at most once per global_step value.
C16_TriggersOnlyAtBoundaries ==
    \A p \in Procs : OnlyAtBoundaries(ckpt_fired[p]) /\ OnlyAtBoundaries(step_validations[p])

\* the index of the micro-batch computed last
LastStep == IF batch_pc = "epoch_end" THEN batch_args.len_dataloader - 1 ELSE batch_step - 1

\* the accumulation windows closed by the micro-batches 0..s
WindowsClosed(s) == Cardinality({k \in 0 .. s : BatchSyncGradients(k)})

\* the micro-batches of 0..s after the last window-closing one
PendingAfter(s) == Cardinality({k \in 0 .. s : \A j \in k .. s : ~ BatchSyncGradients(j)})

RECURSIVE SumSeq(_)
SumSeq(q) == IF q = <<>> THEN 0 ELSE Head(q) + SumSeq(Tail(q))

\* the position of the first event of evs that is in S (0: none)
FirstPos(evs, S) ==
    IF \E k \in 1 .. Len(evs) : evs[k] \in S
    THEN Min({k \in 1 .. Len(evs) : evs[k] \in S})
    ELSE 0

ClosesWindow(s) ==
    (s + 1) % args.gradient_accumulation_steps = 0 \/ s + 1 = args.len_dataloader

\* C18: in every step of a run, on every process, global_step changes only by the
\* increment that follows a completed accumulation window (and by the resume at the
\* start), that increment is exactly 1 and follows every completed window, and a
\* checkpoint is triggered only by such an increment and saved under the value
\* global_step has right after it.
C18_GlobalStepPerWindow ==
    [][\A p \in Procs :
          /\ global_step'[p] >= global_step[p]
          /\ global_step'[p] # global_step[p] => pc[p] \in {"start", "synced"}
          /\ (pc[p] = "synced" /\ pc'[p] # "synced") => global_step'[p] = global_step[p] + 1
          /\ (pc[p] # "allreduce" /\ pc'[p] = "allreduce") => (pc[p] = "batch" /\ ClosesWindow(step[p]))
          /\ (pc[p] = "batch" /\ ClosesWindow(step[p]) /\ pc'[p] # "batch") => pc'[p] = "allreduce"
          /\ (pc[p] # "synced" /\ pc'[p] = "synced") => pc[p] = "allreduce"
          /\ (pc[p] # "save" /\ pc'[p] = "save") =>
                 (pc[p] = "synced" /\ ckpt_fired'[p] = Append(ckpt_fired[p],
                                          [global_step |-> global_step[p] + 1, boundary |-> TRUE]))
          /\ (pc[p] = "save" /\ pc'[p] # "save") =>
                 (checkpoints' = checkpoints \cup {global_step[p]} /\ saved' = saved \cup {global_step[p]})
          /\ (\A q \in Procs : ~ (pc[q] = "save" /\ pc'[q] # "save")) => saved' = saved
    ]_vars

\* C18 witness: with windows of two micro-batches the second update has been saved
\* as checkpoint-2
C18_Witness ==
    /\ args.gradient_accumulation_steps = 2
    /\ args.resume_from_checkpoint = <<"none">>
    /\ global_step[0] = 2
    /\ 2 \in saved
    /\ 2 \in checkpoints

\* the samples of the dataset that belong to the shard of process p
Shard(p) == {i \in 0 .. pre_args.len_dataset - 1 : i % accelerator.num_processes = p}

\* the samples whose artifact a directory holds
Persisted(dir) == {dir[n] : n \in DOMAIN dir}

\* C19: while prepare_precomputations runs with precomputation enabled, a process never
\* holds a conditioning encoder together with the latent encoder; by the time it holds
\* the latent encoder (or is about to load it) every condition artifact of its shard is
\* on disk; and once it has left the latents phase it holds no component at all.
C19_PhasesSequential ==
    \A p \in Procs :
        pre_args.precompute_conditions =>
          /\ ~ (components[p] \cap ConditionComponents # {} /\ components[p] \cap LatentComponents # {})
          /\ (components[p] \cap LatentComponents # {} \/ pre_pc[p] \in {"load_latents", "latents_loop"}) =>
                 /\ Shard(p) \subseteq Persisted(conditions_dir)
                 /\ components[p] \cap ConditionComponents = {}
          /\ pre_pc[p] = "conditions_loop" => components[p] = ConditionComponents
          /\ pre_pc[p] = "latents_loop" => components[p] = LatentComponents
          /\ pre_pc[p] \in {"barrier", "switch", "done", "error"} => components[p] = {}

\* C19 witness: of two processes over three samples, process 0 holds the latent encoder
\* with its two condition artifacts written while process 1 still holds the
\* conditioning encoders
C19_Witness ==
    /\ accelerator.num_processes = 2
    /\ pre_args.len_dataset = 3
    /\ pre_pc[0] = "latents_loop"
    /\ components[0] = LatentComponents
    /\ {0, 2} \subseteq Persisted(conditions_dir)
    /\ pre_pc[1] = "conditions_loop"
    /\ components[1] = ConditionComponents

\* every process has left both precomputation loops of a run that recomputed the cache
PrecomputeFinished ==
    /\ pre_args.precompute_conditions
    /\ pre_args.batch_size = 1
    /\ \A p \in Procs : pre_pc[p] \in {"barrier", "switch", "done"}

\* C20: every iteration of either precomputation loop on process p writes an artifact
\* for sample i exactly when p = i mod P; every artifact on disk is the one of a sample
\* of the shard of the process that wrote it, at the position the sample has in that
\* shard; a process that has left the latents phase has written exactly its shard in
\* both phases; and once every process has left, the two directories hold exactly N
\* artifacts each, one per sample.
C20_ShardsPartitionDataset ==
    /\ [](/\ \A n \in DOMAIN conditions_dir :
               /\ conditions_dir[n] = n[2]
               /\ n[2] \in 0 .. pre_args.len_dataset - 1
               /\ n[3] = n[2] \div accelerator.num_processes
          /\ \A n \in DOMAIN latents_dir :
               /\ latents_dir[n] \in Shard(n[2])
               /\ latents_dir[n] = n[3] * accelerator.num_processes + n[2]
          /\ \A p \in Procs : \A q \in Procs : p # q => Shard(p) \cap Shard(q) = {}
          /\ UNION {Shard(p) : p \in Procs} = 0 .. pre_args.len_dataset - 1
          /\ \A p \in Procs :
               (pre_args.precompute_conditions /\ pre_pc[p] \in {"barrier", "switch"}) =>
                  /\ {latents_dir[n] : n \in {m \in DOMAIN latents_dir : m[2] = p}} = Shard(p)
                  /\ Shard(p) \subseteq Persisted(conditions_dir)
                  /\ file_writes[p] = 2 * Cardinality(Shard(p))
          /\ PrecomputeFinished =>
                  /\ Cardinality(DOMAIN conditions_dir) = pre_args.len_dataset
                  /\ Cardinality(DOMAIN latents_dir) = pre_args.len_dataset
                  /\ Persisted(conditions_dir) = 0 .. pre_args.len_dataset - 1
                  /\ Persisted(latents_dir) = 0 .. pre_args.len_dataset - 1)
    /\ [][\A p \in Procs :
            (pre_pc[p] \in {"conditions_loop", "latents_loop"} /\ pre_i'[p] = pre_i[p] + 1) =>
               /\ file_writes'[p] = file_writes[p] + 1 <=> pre_i[p] % accelerator.num_processes = p
               /\ file_writes'[p] = file_writes[p] <=> pre_i[p] % accelerator.num_processes # p
               /\ (pre_pc[p] = "conditions_loop" /\ file_writes'[p] # file_writes[p]) =>
                      /\ Persisted(conditions_dir') = Persisted(conditions_dir) \cup {pre_i[p]}
                      /\ latents_dir' = latents_dir
               /\ (pre_pc[p] = "latents_loop" /\ file_writes'[p] # file_writes[p]) =>
                      /\ Persisted(latents_dir') = Persisted(latents_dir) \cup {pre_i[p]}
                      /\ conditions_dir' = conditions_dir
       ]_vars

\* C20 witness: two processes have finished both phases over three samples and the
\* cache holds three condition and three latent artifacts
C20_Witness ==
    /\ accelerator.num_processes = 2
    /\ pre_args.len_dataset = 3
    /\ PrecomputeFinished
    /\ invocation = 1
    /\ file_writes[0] = 4
    /\ file_writes[1] = 2
    /\ Cardinality(DOMAIN conditions_dir) = 3
    /\ Cardinality(DOMAIN latents_dir) = 3

\* C21: among the torch.save calls of one precomputation, two calls that name the same
\* path come from the same process and carry the same sample, and every call of a
\* process names a path of its own: the number of distinct paths a process wrote
\* equals the number of its calls.
C21_NoPathCollision ==
    /\ \A a \in write_log : \A b \in write_log :
          a.path = b.path => (a.by = b.by /\ a.sample = b.sample)
    /\ \A p \in Procs :
          Cardinality({a.path : a \in {b \in write_log : b.by = p}}) = file_writes[p]

\* C21 witness: two processes are both inside the latents loop, each having written
\* condition and latent artifacts, five files in all
C21_Witness ==
    /\ accelerator.num_processes = 2
    /\ pre_args.len_dataset = 3
    /\ pre_pc[0] = "latents_loop"
    /\ pre_pc[1] = "latents_loop"
    /\ \E a \in write_log : a.by = 0 /\ a.path[1] = "latents"
    /\ \E a \in write_log : a.by = 1 /\ a.path[1] = "latents"
    /\ Cardinality(write_log) >= 5

\* the cache passes the completeness test and holds an artifact of every sample
CacheComplete ==
    /\ ~ ShouldPerformPrecomputation(conditions_dir, latents_dir, pre_args.len_dataset)
    /\ Persisted(conditions_dir) = 0 .. pre_args.len_dataset - 1
    /\ Persisted(latents_dir) = 0 .. pre_args.len_dataset - 1

\* process q has a torch.save call still ahead of it in this invocation
WillWrite(q) ==
    CASE pre_pc[q] \in {"load_conditions", "conditions_loop", "load_latents"} -> Shard(q) # {}
      [] pre_pc[q] = "latents_loop" -> \E i \in Shard(q) : i >= pre_i[q]
      [] pre_pc[q] \in {"enter", "check"} ->
            /\ pre_args.precompute_conditions
            /\ pre_args.batch_size = 1
            /\ ShouldPerformPrecomputation(conditions_dir, latents_dir, pre_args.len_dataset)
            /\ Shard(q) # {}
      [] OTHER -> FALSE

\* C22: in a run with precomputation enabled, whenever a process holds the cache-backed
\* dataloader the cache is complete and no process has a write in progress or still
\* ahead of it; and
\* a process that ran the two phases itself holds it only after every process has
\* passed the barrier that follows the latents phase.
C22_SwitchAfterAllWrites ==
    \A p \in Procs :
        (pre_args.precompute_conditions /\ dataloader[p] = "precomputed") =>
          /\ CacheComplete
          /\ \A q \in Procs : ~ WillWrite(q) /\ writing[q] = <<>>
          /\ encoder_loads[p] > 0 =>
                \A q \in Procs : pre_pc[q] \in {"switch", "done"} /\ encoder_loads[q] = 2

\* process p found the cache complete and returned without entering the phases
TookCacheHit(p) ==
    /\ pre_args.precompute_conditions
    /\ pre_args.batch_size = 1
    /\ pre_pc[p] = "done"
    /\ encoder_loads[p] = 0

\* process p found the cache incomplete and entered the phases
TookRecompute(p) ==
    pre_pc[p] \in {"load_conditions", "conditions_loop", "load_latents", "latents_loop",
                   "barrier", "switch"} \/ (pre_pc[p] = "done" /\ encoder_loads[p] > 0)

\* C23: within one invocation no process takes the cache-hit path while another takes
\* the recompute path (and is then left waiting at the barrier after the latents
\* phase, which the first never enters).
C23_SameDecisionEverywhere ==
    \A p \in Procs : \A q \in Procs : ~ (TookCacheHit(p) /\ TookRecompute(q))

\* C24: when the first invocation found the cache incomplete and every process has left
\* the two phases, the completeness test accepts the cache, whatever an earlier run
\* had left in the directories; and in the next invocation no process enters the
\* phases again.
C24_RecomputeLeavesCompleteCache ==
    /\ (invocation = 1 /\ PrecomputeFinished) =>
           ~ ShouldPerformPrecomputation(conditions_dir, latents_dir, pre_args.len_dataset)
    /\ invocation = 2 => \A p \in Procs : ~ TookRecompute(p)

\* C25: when save_state has raised on a process, every checkpoint directory that
\* existed before that save attempt (before the save path was requested) still exists.
C25_FailedSaveKeepsCheckpoints ==
    \A p \in Procs : pc[p] = "error" => save_attempt[p].before \subseteq checkpoints

\* the steps for which the checkpoint trigger fired on process p
TriggerSteps(p) == {ckpt_fired[p][k].global_step : k \in 1 .. Len(ckpt_fired[p])}

\* C26: a process other than the coordinating one requests a save path and writes
\* checkpoint state only under the sharded plugin, and under it every process has
\* done so for the same steps by the time training has ended; the adapter weights file
\* of a checkpoint is written by the coordinating process, with every state it writes,
\* and by no other process; the final adapter weights are written by the coordinating
\* process alone, in both modes.
C26_WhoWrites ==
    /\ \A p \in Procs :
          /\ (save_attempt[p].step # 0 \/ ckpt_fired[p] # <<>>) => (accelerator.deepspeed \/ p = 0)
          /\ save_attempt[p].lora <=> (save_attempt[p].state /\ p = 0)
          /\ (accelerator.deepspeed /\ TrainingEnded) =>
                 /\ TriggerSteps(p) = TriggerSteps(0)
                 /\ TriggerSteps(p) # {} => save_attempt[p].state
    /\ final_weights_writers \subseteq {0}
    /\ RunCompleted => final_weights_writers = {0}

\* C26 witness: a completed run of two processes under the sharded plugin in which
\* both wrote the state of the checkpoint of step 2, the coordinating process alone
\* its adapter weights file and the final weights
C26_Witness ==
    /\ accelerator.deepspeed
    /\ accelerator.num_processes = 2
    /\ RunCompleted
    /\ save_attempt[0].step = 2 /\ save_attempt[0].state /\ save_attempt[0].lora
    /\ save_attempt[1].step = 2 /\ save_attempt[1].state /\ ~ save_attempt[1].lora
    /\ final_weights_writers = {0}

\* process p takes the step in which it requests the save path of its next checkpoint
RequestsSavePath(p) == pc[p] = "synced" /\ pc'[p] = "save"

\* every process has written the state of the checkpoint of step s
AllSaved(s) == \A p \in Procs : save_attempt[p].step = s /\ save_attempt[p].state

\* C27: under the sharded plugin, once every process has saved the checkpoint of a step
\* that checkpoint exists and the directory holds at most checkpointing_limit
\* checkpoints; and in every step in which a process requests the save path, the
\* checkpoint of the step being saved is not deleted, the first process to request it
\* deletes only the lowest-stepped checkpoints needed to free one slot, and the
\* processes that request it after the first delete nothing.
C27_ConcurrentPruneThenSave ==
    /\ [](accelerator.deepspeed =>
             \A s \in 1 .. MaxTrainSteps :
                 AllSaved(s) => (s \in checkpoints /\ Cardinality(checkpoints) <= args.checkpointing_limit))
    /\ [][accelerator.deepspeed =>
             \A p \in Procs :
                 RequestsSavePath(p) =>
                    LET s == global_step[p] + 1
                        first == \A q \in Procs : save_attempt[q].step # s
                    IN  /\ (~ first /\ s \in checkpoints) => s \in checkpoints'
                        /\ checkpoints' \subseteq checkpoints
                        /\ \A d \in checkpoints \ checkpoints' : \A k \in checkpoints' : d < k
                        /\ first => Cardinality(checkpoints') =
                                       Min({Cardinality(checkpoints), args.checkpointing_limit - 1})
                        /\ ~ first => checkpoints' = checkpoints
       ]_vars

\* half-width mixed precision
HalfWidth(mixed_precision) == mixed_precision \in {"fp16", "bf16"}

\* C28: under fp16 and bf16 alike, the parameters prepare_optimizer hands to the
\* optimizer are in full precision, and once the load hook has returned, the model it
\* loaded into has its adapter parameters in full precision and its backbone
\* parameters in the half-width dtype.
C28_AdapterUpcastHalfWidth ==
    HalfWidth(hook_in.mixed_precision) =>
       /\ dtypes.optimizer \in {"none", "float32"}
       /\ (hook_pc = "loaded" /\ load_result = "returned") =>
              /\ dtypes.loaded.adapter = "float32"
              /\ dtypes.loaded.backbone = WeightDtype(hook_in.mixed_precision)

\* C29: once the save hook has persisted the adapter weights and the load hook has
\* then returned, the model the training loop goes on to train holds exactly the
\* persisted adapter weights; under ordinary replication the list of models the hook
\* was given is left empty.
C29_RoundTripRestoresAdapter ==
    (/\ hook_pc = "loaded"
     /\ save_result = "returned"
     /\ lora_writes = 1
     /\ load_result = "returned")
    => /\ \A k \in AdapterKeys : lora.training[k] = lora.file[<<"transformer">> \o k]
       /\ ~ accelerator.deepspeed => hook_models = <<>>

\* C30: with precomputed conditions caption dropout has no effect, whatever the
\* technique and the probability: the text conditions handed to the denoiser in a
\* step are the cached ones of the batch, and with a positive dropout probability the
\* warning about the unsupported combination is logged.
C30_NoDropoutWhenPrecomputed ==
    (batch_args.precompute_conditions /\ batch # NoBatch) =>
        /\ text_conditions = PrepareConditions(batch.prompts)
        /\ batch_args.caption_dropout_p > 0 => WarnsUnsupportedDropout(batch_args)

\* a process is at a forward/backward pass or at what follows it inside the step
TrainingPass(p) == pc[p] \in {"batch", "allreduce", "synced", "save"}

\* the final validation has been called on the process
FinalValidationCalled(p) == "final_validation" \in Range(finalize_log[p])

\* C31: every training forward/backward pass runs with the denoiser in training
\* mode and outside validate(), whatever step-triggered and epoch-triggered
\* validations came before it; once the final validation has been called on a
\* process, that process takes no training step any more.
C31_TrainingPassInTrainMode ==
    \A p \in Procs :
        /\ TrainingPass(p) => (transformer_mode[p] = "train" /\ val_pc[p] = "absent")
        /\ FinalValidationCalled(p) => ~ TrainingPass(p) /\ pc[p] \in {"final_validate", "done"}

\* C31 witness: a forward pass is about to run after a step-triggered and an
\* epoch-triggered validation that both put the model in eval mode
C31_Witness ==
    \E p \in Procs :
        /\ pc[p] = "batch"
        /\ transformer_mode[p] = "train"
        /\ val_effects[p].pipelines >= 2
        /\ step_validations[p] # <<>>
        /\ epoch[p] >= 1

\* the collective call process p is waiting in: the gradient all-reduce, the gather
\* or the barrier of validate(), the barrier before the final save
WaitingAt(p) ==
    IF pc[p] = "allreduce" THEN "allreduce"
    ELSE IF val_pc[p] = "gather" THEN "gather"
    ELSE IF val_pc[p] = "barrier" THEN "validate_barrier"
    ELSE IF pc[p] = "finalize" THEN "final_barrier"
    ELSE "none"

\* the checkpoint decisions a cold-started process has made by global step gs
DecidedCheckpoints(p, gs) ==
    IF accelerator.deepspeed \/ IsMainProcess(p)
    THEN {s \in 1 .. gs : s % args.checkpointing_steps = 0}
    ELSE {}

\* C32: the processes advance in lockstep. Two processes that wait in collective
\* calls wait in the same one, with the same global_step, epoch and batch index, after
\* the same validate calls (step-triggered and all) and the same final flag; each has
\* taken the checkpoint decisions its global_step prescribes, so the processes that
\* save have fired the same triggers.
C32_Lockstep ==
    \A p, q \in Procs :
        (WaitingAt(p) # "none" /\ WaitingAt(q) # "none") =>
            /\ WaitingAt(p) = WaitingAt(q)
            /\ global_step[p] = global_step[q]
            /\ epoch[p] = epoch[q]
            /\ step[p] = step[q]
            /\ pc[p] = pc[q]
            /\ step_validations[p] = step_validations[q]
            /\ val_effects[p].pipelines = val_effects[q].pipelines
            /\ val_effects[p].gathers = val_effects[q].gathers
            /\ TriggerSteps(p) = DecidedCheckpoints(p, global_step[p])

\* C32 witness: two processes under the sharded plugin wait in the gather of a
\* step-triggered validation of step 2, after the checkpoint of step 2
C32_Witness ==
    /\ accelerator.num_processes = 2
    /\ accelerator.deepspeed
    /\ \A p \in Procs : /\ val_pc[p] = "gather"
                         /\ pc[p] = "validate_step"
                         /\ global_step[p] = 2
                         /\ 2 \in TriggerSteps(p)

\* every validate call made so far with prompts: the process built one pipeline and
\* entered one gather and one barrier per call it has finished, nobody is past a
\* barrier the others have not passed, and the tracker holds one entry per gather of
\* the coordinating process
ValidateCallsBalanced ==
    /\ \A p \in Procs :
          /\ val_pc[p] \in {"absent", "enter", "done"} =>
                 /\ val_effects[p].pipelines = val_effects[p].gathers
                 /\ val_effects[p].gathers = val_effects[p].barriers
          /\ val_pc[p] \in {"after_barrier", "done"} =>
                 \A q \in Procs : val_effects[q].barriers = val_effects[p].barriers
    /\ Len(tracker_log) = val_effects[0].gathers - (IF val_pc[0] = "log" THEN 1 ELSE 0)

\* C33: in a run with at least one validation prompt every process, with or without
\* a prompt of its own, builds its pipeline and takes part in the gather and in the
\* barrier once per validate call, only the coordinating process logs, nobody leaves
\* validate() before all have passed the barrier, and under fair scheduling every
\* validate call entered returns.
C33_ValidateReturnsEverywhere ==
    /\ [](val_args.num_validation_samples >= 1 => ValidateCallsBalanced)
    /\ \A p \in AllProcs :
          (p \in Procs /\ val_pc[p] = "enter" /\ val_args.num_validation_samples >= 1)
              ~> (val_pc[p] = "done")

\* C34: within one validation run no two saved artifacts are written to the same
\* path, whether they belong to two prompts of one process, to the input and the
\* output of one prompt, to several videos of one prompt or to two processes.
C34_OneFilePerArtifact ==
    \A w1, w2 \in art_writes :
        w1.path = w2.path => (w1.by = w2.by /\ w1.i = w2.i /\ w1.key = w2.key)

\* prepare_for_training has returned
Prepared == \A p \in Procs : pc[p] = "prepared"

\* C35: after prepare_for_training, with E the update steps per epoch of the
\* prepared dataloader (at least 1): a train_steps that was not configured is the
\* configured train_epochs times E, a configured one is kept; train_epochs is
\* ceil(train_steps / E), so (train_epochs - 1) * E < train_steps <= train_epochs * E.
C35_StepsAndEpochsAgree ==
    Prepared =>
        LET E == state.num_update_steps_per_epoch
        IN  /\ E = CeilDiv(PreparedLen(args.len_dataloader, accelerator.num_processes),
                           args.gradient_accumulation_steps)
            /\ E >= 1
            /\ args.train_steps = 0 => state.train_steps = args.train_epochs * E
            /\ args.train_steps # 0 => state.train_steps = args.train_steps
            /\ state.train_epochs = CeilDiv(state.train_steps, E)
            /\ (state.train_epochs - 1) * E < state.train_steps
            /\ state.train_steps <= state.train_epochs * E

\* C35 witness: train_steps was not configured and sharding the dataloader over two
\* processes changed E between prepare_optimizer and prepare_for_training
C35_Witness ==
    /\ Prepared
    /\ accelerator.num_processes = 2
    /\ args.train_steps = 0
    /\ args.train_epochs = 2
    /\ args.len_dataloader = 3
    /\ args.gradient_accumulation_steps = 1
    /\ state.train_steps = 4
    /\ state.train_epochs = 2

\* C36: under fair scheduling every training run leaves the epoch and step loops,
\* goes through Finalize and reaches end_training on every process, whatever the
\* checkpoint and validation intervals.
C36_RunTerminates == <>RunCompleted

\* C37: once prepare_trainable_parameters has run, no parameter of a text encoder, of
\* the latent encoder or of the backbone requires gradients while the adapter
\* parameters do; the optimizer holds exactly the adapter parameters; and no
\* optimizer step changes a frozen parameter, while every step changes the adapter.
C37_FrozenNeverModified ==
    grad_pc \in {"trainable", "training"} =>
        /\ \A g \in DOMAIN requires_grad : requires_grad[g] <=> g = "adapter"
        /\ "adapter" \in DOMAIN requires_grad
        /\ grad_pc = "training" => opt_params = {"adapter"}
        /\ \A g \in DOMAIN param_updates \cap FrozenGroups : param_updates[g] = 0
        /\ param_updates["adapter"] = grad_steps

\* C37 witness: with every encoder held, the optimizer has stepped twice: the adapter
\* was updated twice, the encoders and the backbone never
C37_Witness ==
    /\ grad_pc = "training"
    /\ DOMAIN requires_grad = FrozenGroups \cup {"adapter"}
    /\ grad_steps = 2
    /\ param_updates["adapter"] = 2
    /\ param_updates["backbone"] = 0
    /\ param_updates["vae"] = 0

====
